---- MODULE Spec2Model ----
(***************************************************************************)
(* Score-based tail sampling: the fixed-threshold linear model sampler     *)
(* (linearModelSampler) and the adaptive threshold controller              *)
(* (adaptiveLinearModelSampler) of signoztailsampler/internal/sampling.    *)
(*                                                                         *)
(* float64 values are IEEE-754 binary64, bit for bit: a finite value is    *)
(* [k |-> "fin", s, m, p], the number s x m x 2^-p with s the sign, m an   *)
(* odd natural number of at most 53 bits written in base 2^15 (least       *)
(* significant digit first) and p an integer; zero is m = <<>> with its    *)
(* sign; the non-finite values are NaN, PosInf and NegInf.  Every sum,     *)
(* difference, product and quotient is the exact result rounded to the     *)
(* nearest binary64, ties to even, with gradual underflow to the           *)
(* subnormals and to a signed zero and overflow to an infinity.  Each      *)
(* operation of the source rounds on its own: the compiler does not fuse a *)
(* product with a sum on the amd64 build the collector ships for.  A range *)
(* over a Go map visits the keys in an unspecified order, so a sum         *)
(* accumulated over a map is any of the sums its orders give.              *)
(* time.Time is [zero, ns]: the zero Time, or nanoseconds since the epoch; *)
(* time.Duration is an integer number of nanoseconds.                      *)
(***************************************************************************)
EXTENDS Integers, Sequences, FiniteSets, TLC

\* ------------------------------------------------------------------ bounds
\* Total number of Evaluate calls started in one behaviour.
MaxCalls == 2
\* Number of times the wall clock advances in one behaviour.
MaxTicks == 1
\* Number of spans the ingestion path appends in one behaviour.
MaxIngest == 1

\* ------------------------------------------------------------- time package
Millisecond == 1000000
Second == 1000000000

ZeroTime == [zero |-> TRUE, ns |-> 0]
TimeAt(t) == [zero |-> FALSE, ns |-> t]
IsZero(t) == t.zero
\* t.Sub(u), for two non-zero times.
Sub(t, u) == t.ns - u.ns

\* time.Duration is an int64 count of nanoseconds.  The timestamps of a
\* behaviour, and so their differences, stay below 2^31 ns; a configured window
\* duration may not (10 s in the tests), and is held as whole seconds and the
\* nanoseconds above them: sec * Second + ns, with 0 <= ns < Second.
\* time.Duration(n)
Duration(n) == [sec |-> n \div Second, ns |-> n % Second]
\* time.Duration(k) * time.Second
DurationSeconds(k) == [sec |-> k, ns |-> 0]
\* d > 0
DurationPositive(d) == d.sec > 0 \/ (d.sec = 0 /\ d.ns > 0)
\* n >= d, for a difference n of two timestamps
DurationReached(n, d) ==
    (n \div Second) > d.sec \/ ((n \div Second) = d.sec /\ (n % Second) >= d.ns)

\* The wall clock advances in steps of a quarter of a second.
TickNs == 250 * Millisecond

\* ------------------------------------------------------------------ float64
\* Go evaluates the arguments of a call once, before the call.  Strict1..Strict5
\* apply F to the values of the arguments (TLC would otherwise re-evaluate an
\* argument expression at each use of the parameter).
Strict1(F(_), x) == CHOOSE r \in {F(a) : a \in {x}} : TRUE
Strict2(F(_, _), x, y) == CHOOSE r \in {F(a, b) : a \in {x}, b \in {y}} : TRUE
Strict3(F(_, _, _), x, y, z) == CHOOSE r \in {F(a, b, c) : a \in {x}, b \in {y}, c \in {z}} : TRUE
Strict4(F(_, _, _, _), w, x, y, z) ==
    CHOOSE r \in {F(a, b, c, d) : a \in {w}, b \in {x}, c \in {y}, d \in {z}} : TRUE
Strict5(F(_, _, _, _, _), v, w, x, y, z) ==
    CHOOSE r \in {F(a, b, c, d, e) : a \in {v}, b \in {w}, c \in {x}, d \in {y}, e \in {z}} :
        TRUE

Abs(i) == IF i < 0 THEN -i ELSE i
Larger2(i, j) == IF i < j THEN j ELSE i

\* A natural number of any size is its base-2^15 digits, least significant
\* first; 0 is the empty sequence, and leading zero digits do not count.
Limb == 32768
Pow2(e) == 2 ^ e

BigDigit(a, i) == IF i >= 1 /\ i <= Len(a) THEN a[i] ELSE 0

RECURSIVE TopDigit(_, _)
TopDigit(a, i) == IF i = 0 \/ a[i] # 0 THEN i ELSE TopDigit(a, i - 1)
RECURSIVE LowDigit(_, _)
LowDigit(a, i) == IF a[i] # 0 THEN i ELSE LowDigit(a, i + 1)

BigIsZero(a) == TopDigit(a, Len(a)) = 0
BigTrim(a) == SubSeq(a, 1, TopDigit(a, Len(a)))

\* i, for 0 <= i < 2^31
BigFromInt(i) ==
    IF i = 0 THEN <<>>
    ELSE IF i < Limb THEN <<i>>
    ELSE IF i < Limb * Limb THEN <<i % Limb, i \div Limb>>
    ELSE <<i % Limb, (i \div Limb) % Limb, i \div (Limb * Limb)>>

\* a, for a < 2^31
BigToInt(a) == BigDigit(a, 1) + Limb * BigDigit(a, 2) + Limb * Limb * BigDigit(a, 3)

\* The number of bits of a digit i, by halving the range.
BitLen4(i) == IF i >= 4 THEN (IF i >= 8 THEN 4 ELSE 3) ELSE IF i >= 2 THEN 2 ELSE i
BitLen8(i) == IF i >= 16 THEN 4 + BitLen4(i \div 16) ELSE BitLen4(i)
IntBitLen(i) == IF i >= 256 THEN 8 + BitLen8(i \div 256) ELSE BitLen8(i)
\* The number of bits of every digit, computed once.
DigitBits == [d \in 0..(Limb - 1) |-> IntBitLen(d)]
RECURSIVE IntTrailingZeros(_)
IntTrailingZeros(i) == IF i % 2 = 1 THEN 0 ELSE 1 + IntTrailingZeros(i \div 2)

\* The number of bits of a (0 for 0), and of zero bits below its lowest set bit.
BitsTo(a, top) == IF top = 0 THEN 0 ELSE 15 * (top - 1) + DigitBits[a[top]]
BigBitLen(a) == Strict2(BitsTo, a, TopDigit(a, Len(a)))
ZerosTo(a, low) == 15 * (low - 1) + IntTrailingZeros(a[low])
BigTrailingZeros(a) == Strict2(ZerosTo, a, LowDigit(a, 1))

\* floor(a / 2^s), a * 2^s
BigShiftRight(a, s) ==
    LET j == s \div 15
        low == Pow2(s % 15)
        high == Pow2(15 - (s % 15))
    IN [i \in 1..(IF Len(a) > j THEN Len(a) - j ELSE 0) |->
           (a[i + j] \div low) + (IF i + j < Len(a) THEN (a[i + j + 1] % low) * high ELSE 0)]
BigShiftLeft(a, s) ==
    IF s = 0 THEN a
    ELSE LET j == s \div 15
             up == Pow2(s % 15)
         IN [i \in 1..(Len(a) + j + 1) |->
                IF i <= j THEN 0
                ELSE (IF i - j <= Len(a) THEN (a[i - j] * up) % Limb ELSE 0)
                       + (IF i - j > 1 THEN (a[i - j - 1] * up) \div Limb ELSE 0)]

\* Bit b of a (bit 0 is the lowest), and whether a bit below bit s is set.
BigBit(a, b) == (BigDigit(a, (b \div 15) + 1) \div Pow2(b % 15)) % 2
BigLowBits(a, s) ==
    \/ \E i \in 1..Len(a) : i <= s \div 15 /\ a[i] # 0
    \/ BigDigit(a, (s \div 15) + 1) % Pow2(s % 15) # 0

\* -1, 0, 1 as a < b, a = b, a > b, from digit i down
RECURSIVE BigCmpFrom(_, _, _)
BigCmpFrom(a, b, i) ==
    IF i = 0 THEN 0
    ELSE LET x == IF i <= Len(a) THEN a[i] ELSE 0
             y == IF i <= Len(b) THEN b[i] ELSE 0
         IN IF x < y THEN -1 ELSE IF x > y THEN 1 ELSE BigCmpFrom(a, b, i - 1)
BigCmp(a, b) == BigCmpFrom(a, b, Larger2(Len(a), Len(b)))

\* The digits of the number whose digit i is terms[i] before the carries move
\* up, for n >= 1 terms, each of them any integer; a carry out of the last digit
\* that is not 0 is appended.
BigCarried(terms, n) ==
    LET RECURSIVE From(_, _)
        From(t, i) ==
            IF i = n THEN (IF t \div Limb = 0 THEN <<t % Limb>> ELSE <<t % Limb, t \div Limb>>)
            ELSE <<t % Limb>> \o Strict2(From, terms[i + 1] + (t \div Limb), i + 1)
    IN From(terms[1], 1)

\* a + b
BigAdd(a, b) ==
    IF a = <<>> THEN b
    ELSE IF b = <<>> THEN a
    ELSE BigCarried([i \in 1..Larger2(Len(a), Len(b)) |-> BigDigit(a, i) + BigDigit(b, i)],
                    Larger2(Len(a), Len(b)))

\* a - b, for a >= b
BigSub(a, b) ==
    IF b = <<>> THEN a
    ELSE BigCarried([i \in 1..Len(a) |-> a[i] - BigDigit(b, i)], Len(a))

\* a * f, for a digit f
BigMulDigit(a, f) ==
    IF a = <<>> THEN <<>> ELSE BigCarried([i \in 1..Len(a) |-> a[i] * f], Len(a))

\* acc + a * b, from digit j of b on
RECURSIVE BigMulRows(_, _, _, _)
BigMulRows(a, b, j, acc) ==
    IF j > Len(b) THEN acc
    ELSE Strict4(BigMulRows, a, b, j + 1,
                 Strict2(BigAdd, acc, [i \in 1..(j - 1) |-> 0] \o BigMulDigit(a, b[j])))
BigMul(a, b) ==
    IF Len(b) = 1 THEN BigMulDigit(a, b[1])
    ELSE IF Len(a) = 1 THEN BigMulDigit(b, a[1])
    ELSE Strict4(BigMulRows, a, b, 1, <<>>)

\* [q, r]: q = floor(a / b) and r = a mod b, for a digit b > 0.
BigDivShort(a, b) ==
    LET RECURSIVE From(_, _)
        \* the remainder, then the quotient, of the digits from digit i up
        From(r, i) ==
            IF i = 0 THEN <<r>>
            ELSE Strict2(From, (r * Limb + a[i]) % b, i - 1) \o <<(r * Limb + a[i]) \div b>>
        split(d) == [q |-> Tail(d), r |-> BigFromInt(Head(d))]
    IN Strict1(split, From(0, Len(a)))

\* r * 2^15 + d, for a digit d
BigPush(d, r) == IF d = 0 /\ r = <<>> THEN <<>> ELSE <<d>> \o r

\* The next digit of a long division by v, of two digits and more with the top
\* bit of its top digit set: floor(r / v) for r < v * 2^15 is put in front of
\* q, and the rest is r mod v.  The estimate qhat from the two top digits of
\* r is at most two too large; d is r - qhat * v, one digit longer when it is
\* negative, and v is added back until it is not.
RECURSIVE BigDigitBack(_, _, _, _)
BigDigitBack(d, v, qhat, q) ==
    IF Len(d) = Len(v) + 2
    THEN [q |-> <<qhat>> \o q, r |-> BigTrim(SubSeq(d, 1, Len(v) + 1))]
    ELSE Strict4(BigDigitBack,
                 BigCarried([i \in 1..(Len(v) + 1) |-> d[i] + BigDigit(v, i)], Len(v) + 1),
                 v, qhat - 1, q)
BigDigitOf(d, v, qhat, q) ==
    IF Len(d) = Len(v) + 1 THEN [q |-> <<qhat>> \o q, r |-> BigTrim(d)]
    ELSE Strict4(BigDigitBack,
                 BigCarried([i \in 1..(Len(v) + 1) |-> d[i] + BigDigit(v, i)], Len(v) + 1),
                 v, qhat - 1, q)
BigDigitFrom(r, v, qhat, q) ==
    IF qhat = 0 THEN [q |-> <<0>> \o q, r |-> r]
    ELSE Strict4(BigDigitOf,
                 BigCarried([i \in 1..(Len(v) + 1) |-> BigDigit(r, i) - BigDigit(v, i) * qhat],
                            Len(v) + 1),
                 v, qhat, q)
BigDivDigit(r, v, q) ==
    Strict4(BigDigitFrom, r, v,
            LET e == (BigDigit(r, Len(v) + 1) * Limb + BigDigit(r, Len(v))) \div v[Len(v)]
            IN IF e < Limb THEN e ELSE Limb - 1,
            q)

\* [q, r]: q = floor(a / v) and r = a mod v, for v of two digits and more with
\* the top bit of its top digit set: long division, from the top digit of a down.
BigDivNormal(a, v) ==
    LET RECURSIVE From(_, _)
        From(d, i) ==
            IF i = 0 THEN d
            ELSE Strict2(From, BigDivDigit(BigPush(a[i], d.r), v, d.q), i - 1)
    IN From([q |-> <<>>, r |-> <<>>], Len(a))

\* [q, r]: q = floor(a / v), and r = 0 exactly when v divides a.
BigDivScaled(a, v, t) ==
    Strict2(BigDivNormal, Strict1(BigTrim, BigShiftLeft(a, t)),
            Strict1(BigTrim, BigShiftLeft(v, t)))
BigDivMod(a, v) ==
    IF Len(v) = 1 THEN BigDivShort(a, v[1])
    ELSE Strict3(BigDivScaled, a, v, 15 * Len(v) - BigBitLen(v))

\* A float64 is NaN, an infinity, or sign * m * 2^-p: [k |-> "fin", s, m, p]
\* with the sign s (1 or -1), m odd (or 0, with p = 0: the two zeros), m below
\* 2^53 and p at most 1074.
NaN == [k |-> "nan", s |-> 1, m |-> <<>>, p |-> 0]
PosInf == [k |-> "inf", s |-> 1, m |-> <<>>, p |-> 0]
NegInf == [k |-> "inf", s |-> -1, m |-> <<>>, p |-> 0]
Inf(s) == IF s > 0 THEN PosInf ELSE NegInf
Zero(s) == [k |-> "fin", s |-> s, m |-> <<>>, p |-> 0]
FZero == Zero(1)
FOne == [k |-> "fin", s |-> 1, m |-> <<1>>, p |-> 0]

\* sign * m * 2^-p for a representable m * 2^-p, in its one form
Lowest(s, m, p, tz) ==
    [k |-> "fin", s |-> s, m |-> Strict1(BigTrim, BigShiftRight(m, tz)), p |-> p - tz]
Canonical(s, m, p) ==
    IF BigIsZero(m) THEN Zero(s)
    ELSE IF m[1] % 2 = 1 THEN [k |-> "fin", s |-> s, m |-> BigTrim(m), p |-> p]
    ELSE Strict4(Lowest, s, m, p, BigTrailingZeros(m))

\* Above the largest float64 is an infinity.
Finished(s, m, p) == IF BigBitLen(m) - p > 1024 THEN Inf(s) ELSE Canonical(s, m, p)

\* a + 1
BigIncremented(a) ==
    IF a = <<>> THEN <<1>>
    ELSE IF a[1] < Limb - 1 THEN [a EXCEPT ![1] = @ + 1]
    ELSE BigAdd(a, <<1>>)

\* m * 2^-p, or a value just above it when rest holds, with the lowest bits of
\* m rounded away, a tie going to the even neighbour.  A rest comes with bits
\* to round away.
RoundAway(s, m, p, bits, rest) ==
    IF bits <= 0 THEN Finished(s, m, p)
    ELSE Strict3(Finished, s,
                 IF /\ BigBit(m, bits - 1) = 1
                    /\ (rest \/ BigLowBits(m, bits - 1) \/ BigBit(m, bits) = 1)
                 THEN Strict1(BigIncremented, BigShiftRight(m, bits))
                 ELSE BigShiftRight(m, bits),
                 p - bits)

\* The float64 nearest to sign * m * 2^-p: 53 significant bits, and no bit
\* below 2^-1074 (the subnormal range, down to 0).
Rounded(s, m, p) ==
    Strict5(RoundAway, s, m, p, Larger2(BigBitLen(m) - 53, p - 1074), FALSE)

\* float64(i) of an int i, |i| < 2^31
FromInt(i) == Strict3(Canonical, IF i < 0 THEN -1 ELSE 1, BigFromInt(Abs(i)), 0)
FInt(i) == Strict1(FromInt, i)

\* math.IsNaN, math.IsInf(x, 0)
IsNaN(x) == x.k = "nan"
IsInf(x) == x.k = "inf"
IsFinite(x) == x.k = "fin"
IsZeroValue(x) == x.k = "fin" /\ x.m = <<>>
\* The binary exponent of a finite x # 0, plus one: 2^(e-1) <= |x| < 2^e.
Exponent(x) == 15 * (Len(x.m) - 1) + DigitBits[x.m[Len(x.m)]] - x.p
\* Below the smallest normal float64, 2^-1022.
IsSubnormal(x) == x.k = "fin" /\ x.m # <<>> /\ Exponent(x) <= -1022
Sign(x) == IF IsNaN(x) \/ IsZeroValue(x) THEN 0 ELSE x.s

\* A subnormal float64: n times math.SmallestNonzeroFloat64 (2^-1074).
Subnormal(n) == Strict3(Canonical, IF n < 0 THEN -1 ELSE 1, BigFromInt(Abs(n)), 1074)
SmallestNonzeroFloat64 == Subnormal(1)

\* sx * ax * 2^-p + sy * ay * 2^-p
SumAligned(sx, ax, sy, ay, p) ==
    IF sx = sy THEN Strict3(Rounded, sx, BigAdd(ax, ay), p)
    ELSE IF BigCmp(ax, ay) = 0 THEN FZero
    ELSE IF BigCmp(ax, ay) > 0 THEN Strict3(Rounded, sx, BigSub(ax, ay), p)
    ELSE Strict3(Rounded, sy, BigSub(ay, ax), p)

SumAt(x, y, p) ==
    Strict5(SumAligned, x.s, BigShiftLeft(x.m, p - x.p), y.s, BigShiftLeft(y.m, p - y.p), p)

\* A term more than 64 binary places below the other does not reach the
\* rounding of the sum.
SumFinite(x, y, ex, ey) ==
    IF ex - ey > 64 THEN x
    ELSE IF ey - ex > 64 THEN y
    ELSE Strict3(SumAt, x, y, Larger2(x.p, y.p))

Sum(x, y) ==
    IF IsNaN(x) \/ IsNaN(y) THEN NaN
    ELSE IF IsInf(x) /\ IsInf(y) THEN (IF x.s = y.s THEN x ELSE NaN)
    ELSE IF IsInf(x) THEN x
    ELSE IF IsInf(y) THEN y
    ELSE IF IsZeroValue(x) /\ IsZeroValue(y) THEN (IF x.s = y.s THEN x ELSE FZero)
    ELSE IF IsZeroValue(x) THEN y
    ELSE IF IsZeroValue(y) THEN x
    ELSE Strict4(SumFinite, x, y, Exponent(x), Exponent(y))

\* x + y
FAdd(x, y) == Strict2(Sum, x, y)

Negated(x) == IF IsNaN(x) THEN NaN ELSE [x EXCEPT !.s = -x.s]

\* -x, x - y
FNeg(x) == Strict1(Negated, x)
FSub(x, y) == FAdd(x, FNeg(y))

Product(x, y) ==
    IF IsNaN(x) \/ IsNaN(y) THEN NaN
    ELSE IF IsInf(x) \/ IsInf(y)
         THEN (IF IsZeroValue(x) \/ IsZeroValue(y) THEN NaN ELSE Inf(x.s * y.s))
    ELSE IF IsZeroValue(x) \/ IsZeroValue(y) THEN Zero(x.s * y.s)
    ELSE Strict3(Rounded, x.s * y.s, BigMul(x.m, y.m), x.p + y.p)

\* x * y
FMul(x, y) == Strict2(Product, x, y)

\* The quotient [q, r] of mx * 2^bits by my rounded to a float64: q has 57
\* bits and more, and a remainder puts the value just above q.
QuotientRounded(s, div, p) ==
    Strict5(RoundAway, s, div.q, p, Larger2(BigBitLen(div.q) - 53, p - 1074),
            ~BigIsZero(div.r))

\* The quotient is taken to 57 bits and more.
QuotientScaled(x, y, bits) ==
    Strict3(QuotientRounded, x.s * y.s,
            Strict2(BigDivMod, Strict1(BigTrim, BigShiftLeft(x.m, bits)), y.m),
            x.p - y.p + bits)

Quotient(x, y) ==
    IF IsNaN(x) \/ IsNaN(y) THEN NaN
    ELSE IF IsInf(x) /\ IsInf(y) THEN NaN
    ELSE IF IsInf(x) THEN Inf(x.s * y.s)
    ELSE IF IsInf(y) THEN Zero(x.s * y.s)
    ELSE IF IsZeroValue(y) THEN (IF IsZeroValue(x) THEN NaN ELSE Inf(x.s * y.s))
    ELSE IF IsZeroValue(x) THEN Zero(x.s * y.s)
    ELSE IF y.m = <<1>> THEN Rounded(x.s * y.s, x.m, x.p - y.p)
    ELSE Strict3(QuotientScaled, x, y, Larger2(0, 57 + BigBitLen(y.m) - BigBitLen(x.m)))

\* x / y
FDiv(x, y) == Strict2(Quotient, x, y)

\* The float64 of a decimal literal n/d, and of int / int: n/d correctly rounded.
Fin(n, d) == FDiv(FInt(n), FInt(d))

\* float64(n) / float64(d) of two small counts, computed once.
CommonRatios == [n \in 0..16, d \in 1..16 |-> Fin(n, d)]
Ratio(n, d) == IF n \in 0..16 /\ d \in 1..16 THEN CommonRatios[n, d] ELSE Fin(n, d)

\* |x| < |y| for finite x, y # 0
SmallerAt(x, y, p) ==
    Strict2(BigCmp, BigShiftLeft(x.m, p - x.p), BigShiftLeft(y.m, p - y.p)) < 0
SmallerMagnitude(x, y) ==
    LET ex == Exponent(x)
        ey == Exponent(y)
    IN IF ex # ey THEN ex < ey ELSE Strict3(SmallerAt, x, y, Larger2(x.p, y.p))

Less(x, y) ==
    IF IsNaN(x) \/ IsNaN(y) THEN FALSE
    ELSE IF x = y THEN FALSE
    ELSE IF IsInf(x) THEN x.s < 0
    ELSE IF IsInf(y) THEN y.s > 0
    ELSE IF IsZeroValue(x) THEN ~IsZeroValue(y) /\ y.s > 0
    ELSE IF IsZeroValue(y) THEN x.s < 0
    ELSE IF x.s # y.s THEN x.s < y.s
    ELSE IF x.s > 0 THEN SmallerMagnitude(x, y)
    ELSE SmallerMagnitude(y, x)

\* x < y; every comparison with NaN is false.
FLt(x, y) == Strict2(Less, x, y)

SameValue(x, y) ==
    ~IsNaN(x) /\ ~IsNaN(y) /\ (x = y \/ (IsZeroValue(x) /\ IsZeroValue(y)))

\* x == y, x <= y, x > y, x >= y
FEq(x, y) == Strict2(SameValue, x, y)
LessOrEqual(x, y) == Less(x, y) \/ SameValue(x, y)
FLeq(x, y) == Strict2(LessOrEqual, x, y)
FGt(x, y) == FLt(y, x)
FGeq(x, y) == FLeq(y, x)

Larger(x, y) ==
    IF (IsInf(x) /\ x.s > 0) \/ (IsInf(y) /\ y.s > 0) THEN PosInf
    ELSE IF IsNaN(x) \/ IsNaN(y) THEN NaN
    ELSE IF IsZeroValue(x) /\ IsZeroValue(y) THEN (IF x.s < 0 THEN y ELSE x)
    ELSE IF Less(x, y) THEN y ELSE x

Smaller(x, y) ==
    IF (IsInf(x) /\ x.s < 0) \/ (IsInf(y) /\ y.s < 0) THEN NegInf
    ELSE IF IsNaN(x) \/ IsNaN(y) THEN NaN
    ELSE IF IsZeroValue(x) /\ IsZeroValue(y) THEN (IF x.s < 0 THEN x ELSE y)
    ELSE IF Less(y, x) THEN y ELSE x

\* math.Max, math.Min
FMax(x, y) == Strict2(Larger, x, y)
FMin(x, y) == Strict2(Smaller, x, y)

\* floor(|x|) for a finite |x| < 2^31, and whether |x| is above it
Whole(x) ==
    IF x.p <= 0 THEN Strict1(BigToInt, BigShiftLeft(x.m, -x.p))
    ELSE Strict1(BigToInt, BigShiftRight(x.m, x.p))
HasFraction(x) == x.p > 0 /\ BigLowBits(x.m, x.p)
Floored(x) == IF x.s > 0 THEN Whole(x) ELSE -Whole(x) - (IF HasFraction(x) THEN 1 ELSE 0)
Ceiled(x) == IF x.s > 0 THEN Whole(x) + (IF HasFraction(x) THEN 1 ELSE 0) ELSE -Whole(x)

\* int(math.Floor(x)), int(math.Ceil(x)) for a finite |x| < 2^31
FloorInt(x) == Strict1(Floored, x)
CeilInt(x) == Strict1(Ceiled, x)

\* d.Seconds() of a time.Duration d (nanoseconds): the whole seconds plus the
\* quotient of the nanoseconds above them by 1e9.
SecondsOf(d) == FAdd(FInt(d \div Second), FDiv(FInt(d % Second), FInt(Second)))

\* The durations most behaviours meet, a millisecond and the first steps of
\* the clock, with their d.Seconds(), computed once.
CommonDurations == {Millisecond} \cup {k * TickNs : k \in 1..8}
CommonSeconds == [d \in CommonDurations |-> SecondsOf(d)]
Seconds(d) ==
    IF d < 0 THEN FNeg(SecondsOf(-d))
    ELSE IF d \in CommonDurations THEN CommonSeconds[d]
    ELSE SecondsOf(d)

\* float64(count) / d.Seconds(), computed once for the common durations and
\* small counts.
RateOf(count, d) == FDiv(FInt(count), Seconds(d))
CommonCounts == 0..8
CommonRates == [c \in CommonCounts, d \in CommonDurations |-> RateOf(c, d)]
Rate(count, d) ==
    IF count \in CommonCounts /\ d \in CommonDurations THEN CommonRates[count, d]
    ELSE RateOf(count, d)

\* float64(d) / 1e6 of a time.Duration d, computed once for the first whole
\* milliseconds.
MillisecondsOf(d) == FDiv(FInt(d), FInt(Millisecond))
CommonMilliseconds == [k \in 1..16 |-> MillisecondsOf(k * Millisecond)]
Milliseconds(d) ==
    IF d % Millisecond = 0 /\ (d \div Millisecond) \in 1..16
    THEN CommonMilliseconds[d \div Millisecond]
    ELSE MillisecondsOf(d)

\* ------------------------------------------------------ feature extraction
\* A span: start and end timestamps (ns, 0 = unset), status code, and the
\* http.status_code attribute ([type |-> "none"] when absent).
Span(st, et, status, attr) == [st |-> st, et |-> et, status |-> status, attr |-> attr]
NoAttr == [type |-> "none", val |-> 0]
IntAttr(v) == [type |-> "int", val |-> v]
StrAttr(v) == [type |-> "str", val |-> v]

\* The names every feature vector is populated with.
FeatureNames == {"duration_ms", "span_count", "has_error"}

\* Mutant: a span counts towards the extent as soon as its start is set.
SpanStepStartOnly(acc, span) ==
    LET timed ==
            IF span.st # 0
            THEN IF ~acc.hasTime
                 THEN [acc EXCEPT !.earliest = span.st, !.latest = span.et, !.hasTime = TRUE]
                 ELSE [acc EXCEPT !.earliest = IF span.st < @ THEN span.st ELSE @,
                                  !.latest = IF span.et > @ THEN span.et ELSE @]
            ELSE acc
    IN IF span.status = "Error" THEN [timed EXCEPT !.hasError = TRUE]
       ELSE IF span.attr.type = "int" /\ span.attr.val >= 500
            THEN [timed EXCEPT !.hasError = TRUE]
            ELSE timed

\* Mutant: only the span status is examined.
SpanStepStatusOnly(acc, span) ==
    LET timed ==
            IF span.st # 0 /\ span.et # 0
            THEN IF ~acc.hasTime
                 THEN [acc EXCEPT !.earliest = span.st, !.latest = span.et, !.hasTime = TRUE]
                 ELSE [acc EXCEPT !.earliest = IF span.st < @ THEN span.st ELSE @,
                                  !.latest = IF span.et > @ THEN span.et ELSE @]
            ELSE acc
    IN IF span.status = "Error" THEN [timed EXCEPT !.hasError = TRUE] ELSE timed

\* One iteration of the innermost loop of extractModelFeatures.
SpanStep(acc, span) ==
    LET timed ==
            IF span.st # 0 /\ span.et # 0
            THEN IF ~acc.hasTime
                 THEN [acc EXCEPT !.earliest = span.st, !.latest = span.et, !.hasTime = TRUE]
                 ELSE [acc EXCEPT !.earliest = IF span.st < @ THEN span.st ELSE @,
                                  !.latest = IF span.et > @ THEN span.et ELSE @]
            ELSE acc
    IN IF span.status = "Error" THEN [timed EXCEPT !.hasError = TRUE]
       ELSE IF span.attr.type = "int" /\ span.attr.val >= 500
            THEN [timed EXCEPT !.hasError = TRUE]
            ELSE timed

RECURSIVE FoldSpans(_, _, _)
FoldSpans(acc, spans, k) ==
    IF k > Len(spans) THEN acc ELSE FoldSpans(SpanStep(acc, spans[k]), spans, k + 1)

RECURSIVE FoldScopes(_, _, _)
FoldScopes(acc, ss, j) ==
    IF j > Len(ss) THEN acc ELSE FoldScopes(FoldSpans(acc, ss[j], 1), ss, j + 1)

RECURSIVE FoldResources(_, _, _)
FoldResources(acc, rs, i) ==
    IF i > Len(rs) THEN acc ELSE FoldResources(FoldScopes(acc, rs[i], 1), rs, i + 1)

\* extractModelFeatures(batches, trace): batches is the span collection
\* (resource -> scope -> span) and spanCount the value of trace.SpanCount.
\* features["duration_ms"] = float64(latest-earliest) / 1e6
extractModelFeatures(batches, spanCount) ==
    LET acc == FoldResources([earliest |-> 0, latest |-> 0, hasTime |-> FALSE, hasError |-> FALSE],
                             batches, 1)
    IN [duration_ms |-> IF acc.hasTime /\ acc.latest > acc.earliest
                        THEN Milliseconds(acc.latest - acc.earliest)
                        ELSE FZero,
        span_count |-> FInt(spanCount),
        has_error |-> IF acc.hasError THEN FOne ELSE FZero]

\* features[name], the zero value for a name the map does not hold.
FeatureAt(features, name) == IF name \in DOMAIN features THEN features[name] ELSE FZero

\* score += weight * features[name] for the names in the order the loop visits
\* them: the product is rounded, then the sum.
RECURSIVE SumWeights(_, _, _, _)
SumWeights(score, weights, features, order) ==
    IF order = <<>> THEN score
    ELSE Strict4(SumWeights,
                 FAdd(score, FMul(weights[Head(order)], FeatureAt(features, Head(order)))),
                 weights, features, Tail(order))

\* The orders in which a range over a map with these keys can visit them: the
\* iteration order of a Go map is unspecified.
RangeOrders(names) ==
    {order \in [1..Cardinality(names) -> names] :
        \A i, j \in DOMAIN order : i # j => order[i] # order[j]}

\* Mutant: the sum starts from zero.
ScoreWithoutIntercept(intercept, weights, features) ==
    {SumWeights(FZero, weights, features, order) : order \in RangeOrders(DOMAIN weights)}

\* score := intercept; for name, weight := range weights { score += weight * features[name] }
\* The scores the loop can end with, one for each iteration order; float64
\* addition is not associative, and two orders can differ in the last bit.
Score(intercept, weights, features) ==
    {SumWeights(intercept, weights, features, order) : order \in RangeOrders(DOMAIN weights)}

\* Mutant: only an infinite score is invalid.
InvalidScoreInfOnly(score) == IsInf(score)

\* math.IsNaN(score) || math.IsInf(score, 0)
InvalidScore(score) == IsNaN(score) \/ IsInf(score)

\* --------------------------------------------------------------- quantile
\* The number of elements of the sorted s that are not greater than x: s[i] <= x
\* for every i <= lo, and x < s[i] for every i > hi.
UpperBound(s, x, from, to) ==
    LET RECURSIVE Between(_, _)
        Between(lo, hi) ==
            IF lo >= hi THEN lo
            ELSE IF FLt(x, s[(lo + hi + 1) \div 2])
                 THEN Strict2(Between, lo, ((lo + hi + 1) \div 2) - 1)
                 ELSE Strict2(Between, (lo + hi + 1) \div 2, hi)
    IN Between(from, to)

InsertAt(s, x, k) == SubSeq(s, 1, k) \o <<x>> \o SubSeq(s, k + 1, Len(s))

\* x put into the sorted s, behind the elements that are not greater than x.
InsertSorted(s, x) == Strict3(InsertAt, s, x, UpperBound(s, x, 0, Len(s)))

\* s[from..to] put into sorted, one element after the other.
SortFrom(sorted, s, from, to) ==
    LET RECURSIVE Into(_, _, _)
        Into(acc, lo, hi) ==
            IF lo > hi THEN acc
            ELSE IF lo = hi THEN InsertSorted(acc, s[lo])
            ELSE Strict3(Into, Into(acc, lo, (lo + hi) \div 2), ((lo + hi) \div 2) + 1, hi)
    IN Into(sorted, from, to)

\* sort.Float64s on a copy of s (the scores of the ring are never NaN)
SortFloat64s(s) == SortFrom(<<>>, s, 1, Len(s))

RECURSIVE MinFrom(_, _, _)
MinFrom(m, s, i) ==
    IF i > Len(s) THEN m ELSE MinFrom(IF FLt(s[i], m) THEN s[i] ELSE m, s, i + 1)

RECURSIVE MaxFrom(_, _, _)
MaxFrom(m, s, i) ==
    IF i > Len(s) THEN m ELSE MaxFrom(IF FGt(s[i], m) THEN s[i] ELSE m, s, i + 1)

\* Mutant: the position is rounded down.
QuantileIndexFloor(n, q) ==
    LET clamped(idx) == IF idx < 0 THEN 0 ELSE IF idx >= n THEN n - 1 ELSE idx
    IN Strict1(clamped, FloorInt(FMul(q, FInt(n - 1))))

\* pos := q * float64(len(cpy)-1); idx := int(math.Ceil(pos)), clamped to
\* [0, n-1]: the index into the sorted copy.
QuantileIndex(n, q) ==
    LET clamped(idx) == IF idx < 0 THEN 0 ELSE IF idx >= n THEN n - 1 ELSE idx
    IN Strict1(clamped, CeilInt(FMul(q, FInt(n - 1))))

\* Mutant: the sample is indexed without being sorted.
quantileUnsorted(sample, q) ==
    IF Len(sample) = 0 THEN NaN
    ELSE IF FLeq(q, FZero) THEN MinFrom(sample[1], sample, 2)
    ELSE IF FGeq(q, FOne) THEN MaxFrom(sample[1], sample, 2)
    ELSE sample[QuantileIndex(Len(sample), q) + 1]

\* quantile(sample, q), for a q that is not NaN
quantile(sample, q) ==
    IF Len(sample) = 0 THEN NaN
    ELSE IF FLeq(q, FZero) THEN MinFrom(sample[1], sample, 2)
    ELSE IF FGeq(q, FOne) THEN MaxFrom(sample[1], sample, 2)
    ELSE SortFloat64s(sample)[QuantileIndex(Len(sample), q) + 1]

clamp01(v) == IF FLt(v, FZero) THEN FZero ELSE IF FGt(v, FOne) THEN FOne ELSE v

\* ------------------------------------------------- the two sampler variants
Sampled == "Sampled"
NotSampled == "NotSampled"

\* NewLinearModelSampler(logger, threshold, intercept, weights)
NewLinearModelSampler(threshold, intercept, weights) ==
    [threshold |-> threshold, intercept |-> intercept, weights |-> weights]

\* make([]float64, 0, cfg.MaxSamples) panics on a negative capacity.
MakeslicePanic == [panic |-> "makeslice: cap out of range"]

\* NewAdaptiveLinearModelSampler(logger, cfg): the controller after construction;
\* with a negative cfg.MaxSamples the constructor panics and returns no sampler.
NewAdaptiveLinearModelSampler(cfg) ==
    IF cfg.MaxSamples < 0 THEN MakeslicePanic
    ELSE
    [fallbackThreshold |-> cfg.FallbackThreshold,
     intercept |-> cfg.Intercept,
     weights |-> cfg.Weights,
     windowDuration |-> cfg.WindowDuration,
     recomputeInterval |-> cfg.RecomputeInterval,
     maxSamples |-> cfg.MaxSamples,
     targetTracesPerSec |-> cfg.TargetTracesPerSec,
     keepRatio |-> cfg.KeepRatio,
     minKeepRatio |-> cfg.MinKeepRatio,
     maxKeepRatio |-> IF FEq(cfg.MaxKeepRatio, FZero) THEN FOne ELSE cfg.MaxKeepRatio,
     alwaysKeepErrors |-> cfg.AlwaysKeepErrors,
     slaDurationMs |-> cfg.SlaDurationMs,
     violationRateThreshold |-> cfg.ViolationRateThreshold,
     incidentKeepRatio |-> cfg.IncidentKeepRatio,
     scores |-> <<>>,
     scoresFilled |-> FALSE,
     scoresNextIdx |-> 0,
     windowStart |-> ZeroTime,
     windowTraceCount |-> 0,
     windowViolationCount |-> 0,
     lastRecompute |-> ZeroTime,
     currentThreshold |-> cfg.FallbackThreshold,
     currentKeepRatio |-> FOne,
     firstRecomputeLogged |-> FALSE]

\* Mutant: a rotation restarts the window but keeps its counters.
rotateWindowKeepCounts(ms, now) ==
    IF IsZero(ms.windowStart) THEN [ms EXCEPT !.windowStart = now]
    ELSE IF DurationPositive(ms.windowDuration) /\ DurationReached(Sub(now, ms.windowStart), ms.windowDuration)
         THEN [ms EXCEPT !.windowStart = now]
         ELSE ms

\* Mutant: a timestamp a window duration before windowStart rotates as well.
rotateWindowEitherSide(ms, now) ==
    IF IsZero(ms.windowStart) THEN [ms EXCEPT !.windowStart = now]
    ELSE IF DurationPositive(ms.windowDuration)
            /\ (DurationReached(Sub(now, ms.windowStart), ms.windowDuration)
                   \/ DurationReached(Sub(ms.windowStart, now), ms.windowDuration))
         THEN [ms EXCEPT !.windowStart = now, !.windowTraceCount = 0, !.windowViolationCount = 0]
         ELSE ms

\* Mutant: a rotation restarts the trace counter but not the violation counter.
rotateWindowKeepViolations(ms, now) ==
    IF IsZero(ms.windowStart) THEN [ms EXCEPT !.windowStart = now]
    ELSE IF DurationPositive(ms.windowDuration) /\ DurationReached(Sub(now, ms.windowStart), ms.windowDuration)
         THEN [ms EXCEPT !.windowStart = now, !.windowTraceCount = 0]
         ELSE ms

\* Mutant: a rotation also empties the ring buffer.
rotateWindowClearScores(ms, now) ==
    IF IsZero(ms.windowStart) THEN [ms EXCEPT !.windowStart = now]
    ELSE IF DurationPositive(ms.windowDuration) /\ DurationReached(Sub(now, ms.windowStart), ms.windowDuration)
         THEN [ms EXCEPT !.windowStart = now, !.windowTraceCount = 0, !.windowViolationCount = 0,
                         !.scores = <<>>, !.scoresNextIdx = 0, !.scoresFilled = FALSE]
         ELSE ms

\* The window rotation at the head of the critical section of Evaluate.
rotateWindow(ms, now) ==
    IF IsZero(ms.windowStart) THEN [ms EXCEPT !.windowStart = now]
    ELSE IF DurationPositive(ms.windowDuration) /\ DurationReached(Sub(now, ms.windowStart), ms.windowDuration)
         THEN [ms EXCEPT !.windowStart = now, !.windowTraceCount = 0, !.windowViolationCount = 0]
         ELSE ms

\* Mutant: a duration equal to the SLA is not a violation.
isViolationAboveSla(ms, hasError, durationMs) ==
    hasError \/ (FGt(ms.slaDurationMs, FZero) /\ FGt(durationMs, ms.slaDurationMs))

\* Mutant: only error traces count as violations.
isViolationErrorsOnly(ms, hasError, durationMs) == hasError

\* hasError || (ms.slaDurationMs > 0 && durationMs >= ms.slaDurationMs)
isViolation(ms, hasError, durationMs) ==
    hasError \/ (FGt(ms.slaDurationMs, FZero) /\ FGeq(durationMs, ms.slaDurationMs))

\* Mutant: the write cursor advances without wrapping.
addScoreLockedNoWrap(ms, score) ==
    IF ms.maxSamples <= 0 THEN ms
    ELSE IF Len(ms.scores) < ms.maxSamples THEN [ms EXCEPT !.scores = Append(@, score)]
    ELSE [ms EXCEPT !.scores = [@ EXCEPT ![(ms.scoresNextIdx % ms.maxSamples) + 1] = score],
                    !.scoresNextIdx = @ + 1]

\* Mutant: the write cursor never advances.
addScoreLockedCursorStuck(ms, score) ==
    IF ms.maxSamples <= 0 THEN ms
    ELSE IF Len(ms.scores) < ms.maxSamples THEN [ms EXCEPT !.scores = Append(@, score)]
    ELSE [ms EXCEPT !.scores = [@ EXCEPT ![ms.scoresNextIdx + 1] = score]]

addScoreLocked(ms, score) ==
    IF ms.maxSamples <= 0 THEN ms
    ELSE IF Len(ms.scores) < ms.maxSamples THEN [ms EXCEPT !.scores = Append(@, score)]
    ELSE LET next == ms.scoresNextIdx + 1
         IN [ms EXCEPT !.scores = [@ EXCEPT ![ms.scoresNextIdx + 1] = score],
                       !.scoresNextIdx = IF next >= ms.maxSamples THEN 0 ELSE next,
                       !.scoresFilled = IF next >= ms.maxSamples THEN TRUE ELSE @]

\* Mutant: the trace budget is ignored.
targetKeepRatioNoBudget(ms, incomingRate) ==
    IF FGt(ms.keepRatio, FZero) THEN ms.keepRatio ELSE FOne

\* Mutant: a configured keepRatio takes precedence over the trace budget.
targetKeepRatioRatioFirst(ms, incomingRate) ==
    IF FGt(ms.keepRatio, FZero) THEN ms.keepRatio
    ELSE IF FGt(ms.targetTracesPerSec, FZero)
         THEN IF FLeq(incomingRate, FZero) THEN FOne ELSE FDiv(ms.targetTracesPerSec, incomingRate)
         ELSE FOne

targetKeepRatioLocked(ms, incomingRate) ==
    IF FGt(ms.targetTracesPerSec, FZero)
    THEN IF FLeq(incomingRate, FZero) THEN FOne ELSE FDiv(ms.targetTracesPerSec, incomingRate)
    ELSE IF FGt(ms.keepRatio, FZero) THEN ms.keepRatio
    ELSE FOne

\* Mutant: every elapsed time below 1 ms is raised to 1 ms.
recomputeElapsedFloored(ms, now) ==
    LET elapsed == Sub(now, ms.windowStart)
    IN IF elapsed <= Millisecond THEN Millisecond ELSE elapsed

\* elapsed := now.Sub(ms.windowStart); if elapsed <= 0 { elapsed = time.Millisecond }
recomputeElapsed(ms, now) ==
    LET elapsed == Sub(now, ms.windowStart)
    IN IF elapsed <= 0 THEN Millisecond ELSE elapsed

\* Mutant: the violation rate is compared with the threshold whatever its sign.
incidentDeclaredRateOnly(ms) ==
    LET violationRate == IF ms.windowTraceCount > 0
                         THEN Ratio(ms.windowViolationCount, ms.windowTraceCount)
                         ELSE FZero
    IN FGeq(violationRate, ms.violationRateThreshold)

\* The SLA incident test of recomputeLocked.
incidentDeclared(ms) ==
    LET violationRate == IF ms.windowTraceCount > 0
                         THEN Ratio(ms.windowViolationCount, ms.windowTraceCount)
                         ELSE FZero
    IN IF FLeq(ms.violationRateThreshold, FZero)
       THEN ms.windowViolationCount > 0
       ELSE FGeq(violationRate, ms.violationRateThreshold)

\* incomingRate := float64(ms.windowTraceCount) / elapsed.Seconds()
incomingRate(ms, elapsed) == Rate(ms.windowTraceCount, elapsed)

\* Mutant: the boost applies whether or not an incident is declared.
boostedKeepRatioAlways(ms, keepRatio) ==
    IF FGt(ms.incidentKeepRatio, FZero) /\ FGt(ms.incidentKeepRatio, keepRatio)
    THEN ms.incidentKeepRatio
    ELSE keepRatio

\* The SLA incident boost of recomputeLocked on the base keep ratio.
boostedKeepRatio(ms, keepRatio) ==
    IF FGt(ms.incidentKeepRatio, FZero) /\ incidentDeclared(ms)
       /\ FGt(ms.incidentKeepRatio, keepRatio)
    THEN ms.incidentKeepRatio
    ELSE keepRatio

\* Mutant: the maximum is applied whatever its sign.
clampKeepRatioMaxAlways(ms, keepRatio) ==
    LET c0 == clamp01(keepRatio)
        c1 == IF FGt(ms.minKeepRatio, FZero) THEN FMax(c0, ms.minKeepRatio) ELSE c0
    IN FMin(c1, ms.maxKeepRatio)

\* Mutant: only the clamp to [0,1].
clampKeepRatioUnitOnly(ms, keepRatio) == clamp01(keepRatio)

\* The clamps of recomputeLocked: [0,1], then min and max when configured.
clampKeepRatio(ms, keepRatio) ==
    LET c0 == clamp01(keepRatio)
        c1 == IF FGt(ms.minKeepRatio, FZero) THEN FMax(c0, ms.minKeepRatio) ELSE c0
    IN IF FGt(ms.maxKeepRatio, FZero) THEN FMin(c1, ms.maxKeepRatio) ELSE c1

\* Mutant: a keep ratio between 0 and 1 always yields the fallback threshold.
deriveThresholdFallbackOnly(ms, keepRatio) ==
    IF FGeq(keepRatio, FOne) THEN NegInf
    ELSE IF FLeq(keepRatio, FZero) THEN PosInf
    ELSE ms.fallbackThreshold

\* Mutant: the two infinite thresholds are exchanged.
deriveThresholdSwapped(ms, keepRatio) ==
    IF FGeq(keepRatio, FOne) THEN PosInf
    ELSE IF FLeq(keepRatio, FZero) THEN NegInf
    ELSE IF Len(ms.scores) > 0 THEN Strict2(quantile, ms.scores, FSub(FOne, keepRatio))
    ELSE ms.fallbackThreshold

\* The threshold recomputeLocked derives from the clamped keep ratio.
deriveThreshold(ms, keepRatio) ==
    IF FGeq(keepRatio, FOne) THEN NegInf
    ELSE IF FLeq(keepRatio, FZero) THEN PosInf
    ELSE IF Len(ms.scores) > 0 THEN Strict2(quantile, ms.scores, FSub(FOne, keepRatio))
    ELSE ms.fallbackThreshold

\* The local variables of recomputeLocked(now) when it comes to store its
\* results: elapsed, incomingRate, baseKeepRatio, the keep ratio after the
\* incident boost (boosted) and after the clamps (keepRatio), and threshold.
recomputeLocals(ms, now) ==
    LET clamped(l, keepRatio) ==
            [threshold |-> deriveThreshold(ms, keepRatio), keepRatio |-> keepRatio] @@ l
        boosted(l, keepRatio) ==
            Strict2(clamped, [boosted |-> keepRatio] @@ l, clampKeepRatio(ms, keepRatio))
        based(l, keepRatio) ==
            Strict2(boosted, [baseKeepRatio |-> keepRatio] @@ l, boostedKeepRatio(ms, keepRatio))
        rated(l, rate) ==
            Strict2(based, [incomingRate |-> rate] @@ l, targetKeepRatioLocked(ms, rate))
        timed(elapsed) == Strict2(rated, [elapsed |-> elapsed], incomingRate(ms, elapsed))
    IN Strict1(timed, recomputeElapsed(ms, now))

\* ms.currentThreshold = threshold; ms.currentKeepRatio = keepRatio;
\* ms.lastRecompute = now; ms.firstRecomputeLogged = true
recomputeStored(ms, now, l) ==
    [ms EXCEPT !.currentThreshold = l.threshold,
               !.currentKeepRatio = l.keepRatio,
               !.lastRecompute = now,
               !.firstRecomputeLogged = TRUE]

recomputeLocked(ms, now) == Strict3(recomputeStored, ms, now, recomputeLocals(ms, now))

\* Mutant: every call recomputes.
recomputeGateAlways(ms, now) == TRUE

\* Mutant: the recompute interval is ignored.
recomputeGateNoInterval(ms, now) ==
    IsZero(ms.lastRecompute) \/ Sub(now, ms.lastRecompute) >= 0

\* Mutant: only the first call recomputes.
recomputeGateFirstOnly(ms, now) == IsZero(ms.lastRecompute)

\* ms.lastRecompute.IsZero() || now.Sub(ms.lastRecompute) >= ms.recomputeInterval
recomputeGate(ms, now) ==
    IsZero(ms.lastRecompute) \/ Sub(now, ms.lastRecompute) >= ms.recomputeInterval

\* The whole critical section of Evaluate (between ms.mu.Lock and ms.mu.Unlock)
\* run without interruption on controller state ms.
criticalSection(ms, score, hasError, durationMs, now) ==
    LET count(m) == [m EXCEPT !.windowTraceCount = @ + 1,
                              !.windowViolationCount =
                                  IF isViolation(m, hasError, durationMs) THEN @ + 1 ELSE @]
        admit(m) == addScoreLocked(m, score)
        gated(m) == IF recomputeGate(m, now) THEN recomputeLocked(m, now) ELSE m
    IN Strict1(gated, Strict1(admit, Strict1(count, rotateWindow(ms, now))))

\* ------------------------------------------------------------------ inputs
Threads == {1, 2}
TraceIds == {1, 2, 3}
NoOwner == 0

\* The TraceData objects handed to Evaluate: a 2 ms trace, a two-span trace
\* spanning 5 ms, and a 1 ms trace whose span is OK but carries http.status_code 500.
InitTraces ==
    (1 :> [SpanCount |-> 1,
           ReceivedBatches |-> << << << Span(Millisecond, 3 * Millisecond, "Ok", IntAttr(200)) >> >> >>])
    @@ (2 :> [SpanCount |-> 2,
              ReceivedBatches |-> << << << Span(Millisecond, 2 * Millisecond, "Ok", NoAttr),
                                          Span(3 * Millisecond, 6 * Millisecond, "Ok", NoAttr) >> >> >>])
    @@ (3 :> [SpanCount |-> 1,
              ReceivedBatches |-> << << << Span(Millisecond, 2 * Millisecond, "Ok", IntAttr(500)) >> >> >>])

DurationOnly == [duration_ms |-> FOne]

BaseConfig ==
    [FallbackThreshold |-> FZero, Intercept |-> FZero, Weights |-> DurationOnly,
     WindowDuration |-> Duration(2 * TickNs), RecomputeInterval |-> 1, MaxSamples |-> 2,
     TargetTracesPerSec |-> FZero, KeepRatio |-> FZero,
     MinKeepRatio |-> FZero, MaxKeepRatio |-> FZero,
     AlwaysKeepErrors |-> FALSE,
     SlaDurationMs |-> FZero, ViolationRateThreshold |-> FZero, IncidentKeepRatio |-> FZero]

\* A fixed keep ratio with the error override.
KeepRatioConfig ==
    [BaseConfig EXCEPT !.KeepRatio = Fin(1, 4), !.AlwaysKeepErrors = TRUE]

\* A trace budget with clamps, recomputed at most once per tick.
TargetConfig ==
    [BaseConfig EXCEPT !.TargetTracesPerSec = FInt(2), !.RecomputeInterval = TickNs,
                       !.WindowDuration = Duration(TickNs),
                       !.MinKeepRatio = Fin(1, 4), !.MaxKeepRatio = Fin(3, 4),
                       !.MaxSamples = 3]

\* SLA incident mode: traces of 2 ms and more violate the SLA.
SlaConfig ==
    [BaseConfig EXCEPT !.KeepRatio = Fin(1, 4), !.SlaDurationMs = FInt(2),
                       !.ViolationRateThreshold = Fin(1, 2), !.IncidentKeepRatio = Fin(1, 2),
                       !.AlwaysKeepErrors = TRUE]

\* A weight that makes every score NaN or infinite.
InvalidConfig ==
    [BaseConfig EXCEPT !.Weights = [duration_ms |-> NaN],
                       !.KeepRatio = Fin(1, 4), !.AlwaysKeepErrors = TRUE,
                       !.FallbackThreshold = FInt(-1000)]

\* Each deployment: the adaptive policy's config and the fixed policy's
\* (threshold, intercept, weights).
KeepRatioDeployment ==
    [adaptive |-> KeepRatioConfig,
     fixed |-> NewLinearModelSampler(FInt(2), FZero, DurationOnly)]

TargetDeployment ==
    [adaptive |-> TargetConfig,
     fixed |-> NewLinearModelSampler(FInt(2), FZero,
                  [duration_ms |-> Fin(1, 100), has_error |-> FInt(2), span_count |-> Fin(1, 10)])]

SlaDeployment ==
    [adaptive |-> SlaConfig,
     fixed |-> NewLinearModelSampler(FInt(5), FOne, [span_count |-> FInt(2), unknown |-> FInt(7)])]

InvalidDeployment ==
    [adaptive |-> InvalidConfig,
     fixed |-> NewLinearModelSampler(NegInf, FZero, [duration_ms |-> PosInf])]

Deployments == {KeepRatioDeployment, TargetDeployment, SlaDeployment, InvalidDeployment}

\* ------------------------------------------------------------------- state
VARIABLES
    ms,       \* the adaptiveLinearModelSampler instance (configuration and controller state)
    lms,      \* the linearModelSampler instance
    mu,       \* owner of ms.mu, or NoOwner
    traces,   \* TraceData of each trace: SpanCount and ReceivedBatches
    tlock,    \* owner of each TraceData lock, or NoOwner
    clock,    \* the wall clock, ns
    ticks,    \* clock advances so far
    calls,    \* Evaluate calls started so far
    pc,       \* each thread's position in Evaluate
    loc,      \* each thread's local variables
    serial,   \* history: the controller state had every critical section run atomically,
              \* in the order the mutex was acquired
    ing,      \* the span-ingestion path: its position and the appends done
    hist,     \* history: the Sampled decisions returned in the measured pass of a scenario
    probe     \* the last direct application of a function: its name, arguments and result

vars == <<ms, lms, mu, traces, tlock, clock, ticks, calls, pc, loc, serial, ing, hist, probe>>

\* No function has been applied directly.
NoProbe == [fn |-> "none"]

ZeroFeatures == [duration_ms |-> FZero, span_count |-> FZero, has_error |-> FZero]

InitLoc ==
    [ev |-> "none", trace |-> 0, batches |-> 0, seen |-> <<>>, spanCount |-> 0,
     features |-> ZeroFeatures, score |-> FZero, hasError |-> FALSE, durationMs |-> FZero,
     now |-> ZeroTime, windowStartSeen |-> ZeroTime, cnt |-> 0, counted |-> FALSE,
     recomputed |-> FALSE, elapsed |-> 0, incomingRate |-> FZero, incident |-> FALSE,
     baseKeepRatio |-> FZero, keepRatio |-> FZero,
     threshold |-> FZero, alwaysKeepErrors |-> FALSE, thrAtUnlock |-> FZero,
     decision |-> "none", err |-> "none"]

InitWith(dep) ==
    /\ ms = NewAdaptiveLinearModelSampler(dep.adaptive)
    /\ lms = dep.fixed
    /\ mu = NoOwner
    /\ traces = InitTraces
    /\ tlock = [t \in TraceIds |-> NoOwner]
    /\ clock = 0
    /\ ticks = 0
    /\ calls = 0
    /\ pc = [p \in Threads |-> "idle"]
    /\ loc = [p \in Threads |-> InitLoc]
    /\ serial = ms
    /\ ing = [pc |-> "idle", trace |-> 0, appended |-> 0]
    /\ hist = [sampled |-> 0]
    /\ probe = NoProbe

Init == \E dep \in Deployments : InitWith(dep)

\* ----------------------------------------------------------------- actions
Set(p, fields) == [loc EXCEPT ![p] = fields @@ loc[p]]

\* The wall clock advances.
Tick ==
    /\ ticks < MaxTicks
    /\ clock' = clock + TickNs
    /\ ticks' = ticks + 1
    /\ UNCHANGED <<ms, lms, mu, traces, tlock, calls, pc, loc, serial, ing, hist, probe>>

\* Thread p enters Evaluate(traceID, trace) of evaluator ev with trace tr.
Enter(p, tr, ev) ==
    /\ pc[p] = "idle"
    /\ calls' = calls + 1
    /\ pc' = [pc EXCEPT ![p] = "lockTrace"]
    /\ loc' = [loc EXCEPT ![p] = [InitLoc EXCEPT !.ev = ev, !.trace = tr]]

\* The framework hands trace tr to evaluator ev on thread p.
Call(p, tr, ev) ==
    /\ calls < MaxCalls
    /\ Enter(p, tr, ev)
    /\ UNCHANGED <<ms, lms, mu, traces, tlock, clock, ticks, serial, ing, hist, probe>>

\* Mutant: a controller mutex that excludes nobody.
MuFreeAlways(p) == TRUE

\* sync.Mutex: Lock blocks until the lock is free.
TraceLockFree(p) == tlock[loc[p].trace] = NoOwner
MuFree(p) == mu = NoOwner

\* trace.Lock()
TraceLock(p) ==
    /\ pc[p] = "lockTrace"
    /\ TraceLockFree(p)
    /\ tlock' = [tlock EXCEPT ![loc[p].trace] = p]
    /\ pc' = [pc EXCEPT ![p] = "readBatches"]
    /\ UNCHANGED <<ms, lms, mu, traces, clock, ticks, calls, loc, serial, ing, hist, probe>>

\* batches := trace.ReceivedBatches: a copy of the handle, not of the spans.
ReadBatches(p) ==
    /\ pc[p] = "readBatches"
    /\ loc' = Set(p, [batches |-> loc[p].trace])
    /\ pc' = [pc EXCEPT ![p] = "unlockTrace"]
    /\ UNCHANGED <<ms, lms, mu, traces, tlock, clock, ticks, calls, serial, ing, hist, probe>>

\* Mutant: the TraceData lock is kept until Evaluate returns.
AfterTraceUnlockKept(p) == p

\* The owner of the TraceData lock after trace.Unlock() by p.
AfterTraceUnlock(p) == NoOwner

\* trace.Unlock()
TraceUnlock(p) ==
    /\ pc[p] = "unlockTrace"
    /\ tlock' = [tlock EXCEPT ![loc[p].trace] = AfterTraceUnlock(p)]
    /\ pc' = [pc EXCEPT ![p] = "extract"]
    /\ UNCHANGED <<ms, lms, mu, traces, clock, ticks, calls, loc, serial, ing, hist, probe>>

\* extractModelFeatures begins: it loads trace.SpanCount and starts walking the
\* spans behind the handle.
ExtractBegin(p) ==
    /\ pc[p] = "extract"
    /\ loc' = Set(p, [spanCount |-> traces[loc[p].trace].SpanCount,
                      seen |-> traces[loc[p].batches].ReceivedBatches])
    /\ pc' = [pc EXCEPT ![p] = "iterate"]
    /\ UNCHANGED <<ms, lms, mu, traces, tlock, clock, ticks, calls, serial, ing, hist, probe>>

\* The span collections the walk may have observed: the one it started on, or,
\* when spans were appended during the unsynchronised walk, the longer one.
Observable(p) == {loc[p].seen, traces[loc[p].batches].ReceivedBatches}

\* extractModelFeatures returns.
ExtractEnd(p) ==
    /\ pc[p] = "iterate"
    /\ \E b \in Observable(p) :
          loc' = Set(p, [features |-> extractModelFeatures(b, loc[p].spanCount), seen |-> <<>>])
    /\ pc' = [pc EXCEPT ![p] = "score"]
    /\ UNCHANGED <<ms, lms, mu, traces, tlock, clock, ticks, calls, serial, ing, hist, probe>>

\* Mutant: only NaN is rejected.
ScoreRejectedNaNOnly(score) == IsNaN(score)

\* math.IsNaN(score) || math.IsInf(score, 0)
ScoreRejected(score) == InvalidScore(score)

\* Mutant: an invalid score is returned as an error.
InvalidScoreErrorReported(score) == "model score invalid"

\* return NotSampled, nil
InvalidScoreError(score) == "nil"

\* The score loop and the invalid-score check, of either variant.
ComputeScore(p) ==
    /\ pc[p] = "score"
    /\ \E sampler \in {IF loc[p].ev = "fixed" THEN lms ELSE ms} :
       \E score \in Score(sampler.intercept, sampler.weights, loc[p].features) :
          IF ScoreRejected(score)
          THEN /\ loc' = Set(p, [score |-> score, decision |-> NotSampled,
                                 err |-> InvalidScoreError(score)])
               /\ pc' = [pc EXCEPT ![p] = "done"]
          ELSE /\ loc' = Set(p, [score |-> score,
                                 hasError |-> FGeq(loc[p].features.has_error, FOne),
                                 durationMs |-> loc[p].features.duration_ms])
               /\ pc' = [pc EXCEPT ![p] = IF loc[p].ev = "fixed" THEN "compare" ELSE "readNow"]
    /\ UNCHANGED <<ms, lms, mu, traces, tlock, clock, ticks, calls, serial, ing, hist, probe>>

\* Mutant: the comparison is reversed.
MeetsThresholdBelow(score, threshold) == FLeq(score, threshold)

\* Mutant: a strict comparison.
MeetsThresholdStrict(score, threshold) == FGt(score, threshold)

\* score >= threshold
MeetsThreshold(score, threshold) == FGeq(score, threshold)

\* linearModelSampler.Evaluate: the threshold comparison.
FixedDecide(p) ==
    /\ pc[p] = "compare"
    /\ loc' = Set(p, [threshold |-> lms.threshold,
                      decision |-> IF MeetsThreshold(loc[p].score, lms.threshold)
                                   THEN Sampled ELSE NotSampled,
                      err |-> "nil"])
    /\ pc' = [pc EXCEPT ![p] = "done"]
    /\ UNCHANGED <<ms, lms, mu, traces, tlock, clock, ticks, calls, serial, ing, hist, probe>>

\* now := ms.now()
ReadNow(p) ==
    /\ pc[p] = "readNow"
    /\ loc' = Set(p, [now |-> TimeAt(clock)])
    /\ pc' = [pc EXCEPT ![p] = "lockMu"]
    /\ UNCHANGED <<ms, lms, mu, traces, tlock, clock, ticks, calls, serial, ing, hist, probe>>

\* ms.mu.Lock()
MuLock(p) ==
    /\ pc[p] = "lockMu"
    /\ MuFree(p)
    /\ mu' = p
    /\ serial' = criticalSection(serial, loc[p].score, loc[p].hasError, loc[p].durationMs, loc[p].now)
    /\ pc' = [pc EXCEPT ![p] = "rotate"]
    /\ UNCHANGED <<ms, lms, traces, tlock, clock, ticks, calls, loc, ing, hist, probe>>

\* The window rotation.
Rotate(p) ==
    /\ pc[p] = "rotate"
    /\ ms' = rotateWindow(ms, loc[p].now)
    /\ loc' = Set(p, [windowStartSeen |-> ms.windowStart])
    /\ pc' = [pc EXCEPT ![p] = "loadCount"]
    /\ UNCHANGED <<lms, mu, traces, tlock, clock, ticks, calls, serial, ing, hist, probe>>

\* ms.windowTraceCount++ : the read
LoadCount(p) ==
    /\ pc[p] = "loadCount"
    /\ loc' = Set(p, [cnt |-> ms.windowTraceCount])
    /\ pc' = [pc EXCEPT ![p] = "storeCount"]
    /\ UNCHANGED <<ms, lms, mu, traces, tlock, clock, ticks, calls, serial, ing, hist, probe>>

\* ms.windowTraceCount++ : the write
StoreCount(p) ==
    /\ pc[p] = "storeCount"
    /\ ms' = [ms EXCEPT !.windowTraceCount = loc[p].cnt + 1]
    /\ pc' = [pc EXCEPT ![p] = "countViolation"]
    /\ UNCHANGED <<lms, mu, traces, tlock, clock, ticks, calls, loc, serial, ing, hist, probe>>

\* if hasError || (...) { ms.windowViolationCount++ }
CountViolation(p) ==
    /\ pc[p] = "countViolation"
    /\ LET v == isViolation(ms, loc[p].hasError, loc[p].durationMs)
       IN /\ ms' = [ms EXCEPT !.windowViolationCount = IF v THEN @ + 1 ELSE @]
          /\ loc' = Set(p, [counted |-> v])
    /\ pc' = [pc EXCEPT ![p] = "addScore"]
    /\ UNCHANGED <<lms, mu, traces, tlock, clock, ticks, calls, serial, ing, hist, probe>>

\* ms.addScoreLocked(score)
AddScore(p) ==
    /\ pc[p] = "addScore"
    /\ ms' = addScoreLocked(ms, loc[p].score)
    /\ pc' = [pc EXCEPT ![p] = "gate"]
    /\ UNCHANGED <<lms, mu, traces, tlock, clock, ticks, calls, loc, serial, ing, hist, probe>>

\* The recompute gate and, when it is open, recomputeLocked(now).
Recompute(p) ==
    /\ pc[p] = "gate"
    /\ IF recomputeGate(ms, loc[p].now)
       THEN \E l \in {recomputeLocals(ms, loc[p].now)} :
               /\ ms' = recomputeStored(ms, loc[p].now, l)
               /\ loc' = Set(p, [recomputed |-> TRUE,
                                 elapsed |-> l.elapsed,
                                 incomingRate |-> l.incomingRate,
                                 incident |-> FGt(ms.incidentKeepRatio, FZero)
                                                 /\ incidentDeclared(ms),
                                 baseKeepRatio |-> l.baseKeepRatio,
                                 keepRatio |-> l.boosted])
       ELSE /\ ms' = ms
            /\ loc' = Set(p, [recomputed |-> FALSE])
    /\ pc' = [pc EXCEPT ![p] = "readThreshold"]
    /\ UNCHANGED <<lms, mu, traces, tlock, clock, ticks, calls, serial, ing, hist, probe>>

\* threshold := ms.currentThreshold; alwaysKeepErrors := ms.alwaysKeepErrors
ReadThreshold(p) ==
    /\ pc[p] = "readThreshold"
    /\ loc' = Set(p, [threshold |-> ms.currentThreshold,
                      alwaysKeepErrors |-> ms.alwaysKeepErrors])
    /\ pc' = [pc EXCEPT ![p] = "unlockMu"]
    /\ UNCHANGED <<ms, lms, mu, traces, tlock, clock, ticks, calls, serial, ing, hist, probe>>

\* Mutant: the controller mutex is kept after the critical section.
AfterMuUnlockKept(p) == p

\* The owner of the controller mutex after s.mu.Unlock() by p.
AfterMuUnlock(p) == NoOwner

\* s.mu.Unlock(); thrAtUnlock records the controller threshold at this moment.
MuUnlock(p) ==
    /\ pc[p] = "unlockMu"
    /\ mu' = AfterMuUnlock(p)
    /\ loc' = Set(p, [thrAtUnlock |-> ms.currentThreshold])
    /\ pc' = [pc EXCEPT ![p] = "decide"]
    /\ UNCHANGED <<ms, lms, traces, tlock, clock, ticks, calls, serial, ing, hist, probe>>

\* Mutant: no error override.
ErrorOverrideDropped(alwaysKeepErrors, hasError) == FALSE

\* Mutant: the decision reads ms.currentThreshold after the mutex was released.
DecisionThresholdShared(p) == ms.currentThreshold

\* alwaysKeepErrors && hasError
ErrorOverride(alwaysKeepErrors, hasError) == alwaysKeepErrors /\ hasError

\* The threshold the adaptive decision compares the score with.
DecisionThreshold(p) == loc[p].threshold

\* adaptiveLinearModelSampler.Evaluate: the decision after the critical section.
AdaptiveDecide(p) ==
    /\ pc[p] = "decide"
    /\ loc' = Set(p, [decision |->
                         IF ErrorOverride(loc[p].alwaysKeepErrors, loc[p].hasError) THEN Sampled
                         ELSE IF MeetsThreshold(loc[p].score, DecisionThreshold(p)) THEN Sampled
                         ELSE NotSampled,
                      err |-> "nil"])
    /\ pc' = [pc EXCEPT ![p] = "done"]
    /\ UNCHANGED <<ms, lms, mu, traces, tlock, clock, ticks, calls, serial, ing, hist, probe>>

\* Evaluate hands (decision, err) back.
Leave(p) ==
    /\ pc[p] = "done"
    /\ pc' = [pc EXCEPT ![p] = "idle"]
    /\ loc' = [loc EXCEPT ![p] = InitLoc]

\* Evaluate returns (decision, err) to the framework.
Return(p) ==
    /\ Leave(p)
    /\ UNCHANGED <<ms, lms, mu, traces, tlock, clock, ticks, calls, serial, ing, hist, probe>>

\* The steps of adaptiveLinearModelSampler.Evaluate from trace.Lock() to the decision.
AdaptiveSteps(p) ==
    \/ TraceLock(p)
    \/ ReadBatches(p)
    \/ TraceUnlock(p)
    \/ ExtractBegin(p)
    \/ ExtractEnd(p)
    \/ ComputeScore(p)
    \/ ReadNow(p)
    \/ MuLock(p)
    \/ Rotate(p)
    \/ LoadCount(p)
    \/ StoreCount(p)
    \/ CountViolation(p)
    \/ AddScore(p)
    \/ Recompute(p)
    \/ ReadThreshold(p)
    \/ MuUnlock(p)
    \/ AdaptiveDecide(p)

\* A step of either Evaluate (the two variants share their first steps).
Evaluate(p) ==
    \/ AdaptiveSteps(p)
    \/ FixedDecide(p)
    \/ Return(p)

Next ==
    \/ Tick
    \/ \E p \in Threads, tr \in TraceIds, ev \in {"fixed", "adaptive"} : Call(p, tr, ev)
    \/ \E p \in Threads : Evaluate(p)

Spec == Init /\ [][Next]_vars

\* ------------------------------------------------- the span-ingestion path
\* The processor's ingestion path, which appends late spans to a TraceData
\* under the TraceData lock while evaluators run.
Ingester == Cardinality(Threads) + 1

\* A late span: an error span ending at 9 ms.
LateSpan == Span(Millisecond, 9 * Millisecond, "Error", NoAttr)

IngestLock(tr) ==
    /\ ing.pc = "idle"
    /\ ing.appended < MaxIngest
    /\ tlock[tr] = NoOwner
    /\ tlock' = [tlock EXCEPT ![tr] = Ingester]
    /\ ing' = [ing EXCEPT !.pc = "append", !.trace = tr]
    /\ UNCHANGED <<ms, lms, mu, traces, clock, ticks, calls, pc, loc, serial, hist, probe>>

IngestAppend ==
    /\ ing.pc = "append"
    /\ traces' = [traces EXCEPT ![ing.trace] =
                     [SpanCount |-> @.SpanCount + 1,
                      ReceivedBatches |-> Append(@.ReceivedBatches, << <<LateSpan>> >>)]]
    /\ ing' = [ing EXCEPT !.pc = "unlock", !.appended = @ + 1]
    /\ UNCHANGED <<ms, lms, mu, tlock, clock, ticks, calls, pc, loc, serial, hist, probe>>

IngestUnlock ==
    /\ ing.pc = "unlock"
    /\ tlock' = [tlock EXCEPT ![ing.trace] = NoOwner]
    /\ ing' = [ing EXCEPT !.pc = "idle", !.trace = 0]
    /\ UNCHANGED <<ms, lms, mu, traces, clock, ticks, calls, pc, loc, serial, hist, probe>>

Ingest ==
    \/ \E tr \in TraceIds : IngestLock(tr)
    \/ IngestAppend
    \/ IngestUnlock

NextIngest == Next \/ Ingest

InitIngest == InitWith(SlaDeployment)

\* Evaluators running beside the ingestion path.
SpecIngest == InitIngest /\ [][NextIngest]_vars

\* The contended case: every call evaluates TraceData 1, to which the ingestion
\* path appends; the clock stands still.
NextContended ==
    \/ \E p \in Threads, ev \in {"fixed", "adaptive"} : Call(p, 1, ev)
    \/ \E p \in Threads : Evaluate(p)
    \/ IngestLock(1)
    \/ IngestAppend
    \/ IngestUnlock

\* Scheduling: a goroutine that can take a step of Evaluate (a lock it waits
\* for is free, or its next statement does not block) eventually takes one,
\* and the ingestion path leaves its critical section once it holds the lock.
Fairness ==
    /\ \A p \in Threads : WF_vars(AdaptiveSteps(p) \/ FixedDecide(p))
    /\ WF_vars(IngestAppend \/ IngestUnlock)

FairSpecIngest == InitIngest /\ [][NextContended]_vars /\ Fairness

\* ------------------------------------------------------- convergence scenario
\* TestAdaptiveLinearModelSampler_TargetTracesPerSec_DropsLowScores: one
\* goroutine, a warm-up pass and a measured pass of PassLen traces each, one
\* trace every ConvStep, the trace of round i lasting i ms.
PassLen == 100
ConvStep == 10 * Millisecond

ConvConfig ==
    [BaseConfig EXCEPT !.Weights = [duration_ms |-> FOne, has_error |-> FZero, span_count |-> FZero],
                       !.WindowDuration = DurationSeconds(10),
                       !.RecomputeInterval = 1,
                       !.MaxSamples = 2048,
                       !.TargetTracesPerSec = FInt(10),
                       !.AlwaysKeepErrors = TRUE]

ConvDeployment ==
    [adaptive |-> ConvConfig,
     fixed |-> NewLinearModelSampler(FZero, FZero, DurationOnly)]

\* mkTrace(d): one Ok span with http.status_code 200 that starts at
\* time.Unix(1, 0) and lasts d.
mkTrace(d) ==
    [SpanCount |-> 1,
     ReceivedBatches |-> << << << Span(Second, Second + d, "Ok", IntAttr(200)) >> >> >>]

TestGoroutine == CHOOSE p \in Threads : \A q \in Threads : p <= q
TestTrace == CHOOSE tr \in TraceIds : \A u \in TraceIds : tr <= u

\* now = now.Add(step); sampler.Evaluate(traceID, mkTrace(i ms))
ConvCall ==
    /\ calls < 2 * PassLen
    /\ Enter(TestGoroutine, TestTrace, "adaptive")
    /\ clock' = clock + ConvStep
    /\ traces' = [traces EXCEPT ![TestTrace] = mkTrace(((calls % PassLen) + 1) * Millisecond)]
    /\ UNCHANGED <<ms, lms, mu, tlock, ticks, serial, ing, hist, probe>>

\* The call returns; the measured pass counts its Sampled decisions.
ConvReturn ==
    /\ Leave(TestGoroutine)
    /\ hist' = [hist EXCEPT !.sampled =
                   IF calls > PassLen /\ loc[TestGoroutine].decision = Sampled THEN @ + 1 ELSE @]
    /\ UNCHANGED <<ms, lms, mu, traces, tlock, clock, ticks, calls, serial, ing, probe>>

NextConv ==
    \/ ConvCall
    \/ AdaptiveSteps(TestGoroutine)
    \/ ConvReturn

InitConv == InitWith(ConvDeployment)

SpecConv == InitConv /\ [][NextConv]_vars

\* ------------------------------------------------------- controller tuning
\* One goroutine evaluates traces against controllers built from a family of
\* configurations: the keep-ratio bounds, the two sources of the base keep
\* ratio, the SLA incident mode and the window duration each take values on
\* both sides of every comparison the controller makes with them.
ClampConfigs ==
    {[BaseConfig EXCEPT !.KeepRatio = k, !.MinKeepRatio = lo, !.MaxKeepRatio = hi] :
        k \in {Fin(1, 4), Fin(3, 2)},
        lo \in {FZero, Fin(1, 2), Fin(3, 2), FInt(-1)},
        hi \in {FZero, Fin(1, 4), FInt(2), FInt(-1)}}

RateConfigs ==
    {[BaseConfig EXCEPT !.TargetTracesPerSec = t, !.KeepRatio = k] :
        t \in {FZero, FInt(2), FInt(16), FInt(-1)},
        k \in {FZero, Fin(1, 4), Fin(-1, 4)}}

IncidentConfigs ==
    {[BaseConfig EXCEPT !.KeepRatio = Fin(1, 4), !.IncidentKeepRatio = i,
                        !.ViolationRateThreshold = v, !.SlaDurationMs = d] :
        i \in {FZero, Fin(1, 2), Fin(1, 8), Fin(-1, 2)},
        v \in {FZero, Fin(1, 2), FInt(-1)},
        d \in {FZero, FInt(2)}}

WindowConfigs ==
    {[BaseConfig EXCEPT !.KeepRatio = Fin(1, 4), !.WindowDuration = Duration(w)] :
        w \in {0, TickNs, 2 * TickNs, -TickNs}}

GateConfigs ==
    {[BaseConfig EXCEPT !.KeepRatio = Fin(1, 4), !.RecomputeInterval = r] :
        r \in {0, TickNs, 2 * TickNs, -TickNs}}

\* Controllers without a ring buffer (max_samples 0), with fallback thresholds
\* between and above the scores of the traces.
NoBufferConfigs ==
    {[BaseConfig EXCEPT !.MaxSamples = 0, !.KeepRatio = k, !.FallbackThreshold = f] :
        k \in {Fin(1, 4), FOne}, f \in {FInt(2), FInt(7)}}

\* A positive target rate so small that its quotient by any incoming rate
\* underflows: math.SmallestNonzeroFloat64 (5e-324).
UnderflowConfigs ==
    {[BaseConfig EXCEPT !.TargetTracesPerSec = SmallestNonzeroFloat64,
                        !.MinKeepRatio = lo, !.AlwaysKeepErrors = e,
                        !.IncidentKeepRatio = i] :
        lo \in {FZero, Fin(1, 4)}, e \in BOOLEAN, i \in {FZero, Fin(1, 2)}}

TuningConfigs ==
    ClampConfigs \cup RateConfigs \cup IncidentConfigs \cup WindowConfigs \cup GateConfigs
        \cup NoBufferConfigs \cup UnderflowConfigs

InitTuning ==
    \E cfg \in TuningConfigs :
        InitWith([adaptive |-> cfg, fixed |-> NewLinearModelSampler(FZero, FZero, DurationOnly)])

NextTuning ==
    \/ Tick
    \/ \E tr \in TraceIds : Call(TestGoroutine, tr, "adaptive")
    \/ AdaptiveSteps(TestGoroutine)
    \/ Return(TestGoroutine)

SpecTuning == InitTuning /\ [][NextTuning]_vars

\* Traces that arrive within milliseconds of each other: the clock advances by
\* half a millisecond, one or two milliseconds between calls.
ShortSteps == {Millisecond \div 2, Millisecond, 2 * Millisecond}

ShortTick ==
    /\ ticks < MaxTicks
    /\ \E d \in ShortSteps : clock' = clock + d
    /\ ticks' = ticks + 1
    /\ UNCHANGED <<ms, lms, mu, traces, tlock, calls, pc, loc, serial, ing, hist, probe>>

NextRate ==
    \/ ShortTick
    \/ \E tr \in TraceIds : Call(TestGoroutine, tr, "adaptive")
    \/ AdaptiveSteps(TestGoroutine)
    \/ Return(TestGoroutine)

InitRate ==
    \E cfg \in RateConfigs :
        InitWith([adaptive |-> cfg, fixed |-> NewLinearModelSampler(FZero, FZero, DurationOnly)])

SpecRate == InitRate /\ [][NextRate]_vars

\* ------------------------------------------- calls out of timestamp order
\* Two goroutines evaluate the same trace on one adaptive controller while the
\* clock advances; window durations and recompute intervals of zero, one and
\* two clock steps.
MaxOrderCalls == 3
MaxOrderTicks == 2

OrderConfigs ==
    {[BaseConfig EXCEPT !.KeepRatio = Fin(1, 4), !.WindowDuration = Duration(w), !.RecomputeInterval = r] :
        w \in {TickNs, 2 * TickNs}, r \in {0, TickNs, 2 * TickNs}}

OrderTick ==
    /\ ticks < MaxOrderTicks
    /\ clock' = clock + TickNs
    /\ ticks' = ticks + 1
    /\ UNCHANGED <<ms, lms, mu, traces, tlock, calls, pc, loc, serial, ing, hist, probe>>

OrderCall(p) ==
    /\ calls < MaxOrderCalls
    /\ Enter(p, TestTrace, "adaptive")
    /\ UNCHANGED <<ms, lms, mu, traces, tlock, clock, ticks, serial, ing, hist, probe>>

NextOrder ==
    \/ OrderTick
    \/ \E p \in Threads : OrderCall(p)
    \/ \E p \in Threads : AdaptiveSteps(p)
    \/ \E p \in Threads : Return(p)

InitOrder ==
    \E cfg \in OrderConfigs :
        InitWith([adaptive |-> cfg, fixed |-> NewLinearModelSampler(FZero, FZero, DurationOnly)])

SpecOrder == InitOrder /\ [][NextOrder]_vars

\* ------------------------------------------ one call on copies of a controller
\* Evaluate from ms.mu.Lock() to its return, run without interruption on
\* controller state m: the controller it leaves, the threshold it compares the
\* score with, and its decision.
evaluateLocked(m, score, hasError, durationMs, now) ==
    LET outcome(after) ==
            [ms |-> after,
             threshold |-> after.currentThreshold,
             decision |-> IF ErrorOverride(after.alwaysKeepErrors, hasError) THEN Sampled
                          ELSE IF MeetsThreshold(score, after.currentThreshold) THEN Sampled
                          ELSE NotSampled]
    IN Strict1(outcome, criticalSection(m, score, hasError, durationMs, now))

\* Two goroutines evaluate traces on one adaptive controller while the clock
\* advances: the controllers of the deployments, and one whose negative
\* recompute interval opens the gate for a call with an old timestamp.
NegativeIntervalDeployment ==
    [adaptive |-> [BaseConfig EXCEPT !.KeepRatio = Fin(1, 4), !.RecomputeInterval = -TickNs],
     fixed |-> NewLinearModelSampler(FZero, FZero, DurationOnly)]

CopyDeployments ==
    {KeepRatioDeployment, TargetDeployment, SlaDeployment, NegativeIntervalDeployment}

NextCopies ==
    \/ Tick
    \/ \E p \in Threads, tr \in TraceIds : Call(p, tr, "adaptive")
    \/ \E p \in Threads : AdaptiveSteps(p)
    \/ \E p \in Threads : Return(p)

InitCopies == \E dep \in CopyDeployments : InitWith(dep)

SpecCopies == InitCopies /\ [][NextCopies]_vars

\* ------------------------------------------------------- direct applications
\* targetKeepRatioLocked applied to incoming rates of every kind, on the
\* controllers of RateConfigs.
IncomingRates ==
    {FZero, FInt(-1), Fin(1, 2), FInt(2), FInt(8), FInt(16), FInt(1000), PosInf, NaN}

ApplyTargetKeepRatio ==
    /\ \E rate \in IncomingRates :
          probe' = [fn |-> "targetKeepRatioLocked", incomingRate |-> rate,
                    result |-> targetKeepRatioLocked(ms, rate)]
    /\ UNCHANGED <<ms, lms, mu, traces, tlock, clock, ticks, calls, pc, loc, serial, ing, hist>>

InitKeepRatio ==
    \E cfg \in RateConfigs :
        InitWith([adaptive |-> cfg, fixed |-> NewLinearModelSampler(FZero, FZero, DurationOnly)])

SpecKeepRatio == InitKeepRatio /\ [][ApplyTargetKeepRatio]_vars

\* extractModelFeatures applied to span collections of up to MaxSpans spans in
\* every order and every resource/scope grouping.
MaxSpans == 2

\* Start and end timestamps unset, early and late (an end before its start
\* included), on spans without error marks; and every combination of status and
\* http.status_code attribute on a 1 ms span.
ProbeSpans ==
    {Span(st, et, status, NoAttr) :
        st \in {0, Millisecond, 4 * Millisecond},
        et \in {0, 2 * Millisecond, 6 * Millisecond},
        status \in {"Ok", "Error"}}
    \cup {Span(Millisecond, 2 * Millisecond, status, attr) :
        status \in {"Ok", "Error", "Unset"},
        attr \in {IntAttr(200), IntAttr(499), IntAttr(500), IntAttr(503), StrAttr(500)}}

\* Where a span is appended: to the last scope, to a new scope of the last
\* resource, or to a new resource.
Placements == {"span", "scope", "resource"}

AppendSpan(batches, span, placement) ==
    IF batches = <<>> \/ placement = "resource" THEN Append(batches, <<<<span>>>>)
    ELSE LET i == Len(batches)
             j == Len(batches[i])
         IN IF placement = "scope"
            THEN [batches EXCEPT ![i] = Append(@, <<span>>)]
            ELSE [batches EXCEPT ![i][j] = Append(@, span)]

\* Spans().Len() summed over the collection.
SpanTotal(batches) ==
    LET RECURSIVE InScopes(_, _), InResources(_)
        InScopes(ss, j) == IF j > Len(ss) THEN 0 ELSE Len(ss[j]) + InScopes(ss, j + 1)
        InResources(i) == IF i > Len(batches) THEN 0
                          ELSE InScopes(batches[i], 1) + InResources(i + 1)
    IN InResources(1)

\* The collection grows by one span; the features of the grown collection are
\* extracted.
ApplyExtract ==
    /\ probe.fn \in {"none", "extractModelFeatures"}
    /\ LET batches == IF probe.fn = "none" THEN <<>> ELSE probe.batches
       IN /\ SpanTotal(batches) < MaxSpans
          /\ \E span \in ProbeSpans, placement \in Placements :
                \E grown \in {AppendSpan(batches, span, placement)} :
                    probe' = [fn |-> "extractModelFeatures", batches |-> grown,
                              features |-> extractModelFeatures(grown, SpanTotal(grown))]
    /\ UNCHANGED <<ms, lms, mu, traces, tlock, clock, ticks, calls, pc, loc, serial, ing, hist>>

\* The empty collection.
ApplyExtractEmpty ==
    /\ probe.fn = "none"
    /\ probe' = [fn |-> "extractModelFeatures", batches |-> <<>>,
                 features |-> extractModelFeatures(<<>>, 0)]
    /\ UNCHANGED <<ms, lms, mu, traces, tlock, clock, ticks, calls, pc, loc, serial, ing, hist>>

NextFeatures == ApplyExtract \/ ApplyExtractEmpty

InitFeatures ==
    InitWith([adaptive |-> BaseConfig, fixed |-> NewLinearModelSampler(FZero, FZero, DurationOnly)])

SpecFeatures == InitFeatures /\ [][NextFeatures]_vars

\* --------------------------------------------------------- the linear score
\* TestLinearModelSampler_*: one goroutine builds a trace and hands it to a
\* linearModelSampler built from a family of weights, intercepts and
\* thresholds.
ExampleWeights ==
    [duration_ms |-> Fin(1, 100), has_error |-> FInt(2), span_count |-> Fin(1, 10)]

ScoreWeights ==
    {ExampleWeights,
     DurationOnly,
     [has_error |-> FInt(2)],
     [duration_ms |-> FOne, has_error |-> FZero, span_count |-> FZero],
     [duration_ms |-> FOne, unknown_feature |-> FInt(5)],
     [unknown_feature |-> PosInf],
     [duration_ms |-> NaN],
     [span_count |-> FInt(-1), has_error |-> PosInf],
     [name \in {} |-> FZero]}

ScoreSamplers ==
    {NewLinearModelSampler(threshold, intercept, weights) :
        threshold \in {FInt(2), FInt(100)},
        intercept \in {FZero, FOne, Fin(-1, 2)},
        weights \in ScoreWeights}

ExampleSampler == NewLinearModelSampler(FInt(2), FZero, ExampleWeights)

\* newTraceWithSpansAndAttrs with one span starting at time.Unix(1, 0).
OneSpanTrace(d, status, attr) ==
    [SpanCount |-> 1,
     ReceivedBatches |-> << << << Span(Second, Second + d, status, attr) >> >> >>]

ShortTrace == OneSpanTrace(50 * Millisecond, "Ok", IntAttr(200))
LongTrace == OneSpanTrace(400 * Millisecond, "Ok", IntAttr(200))
ErrorTrace == OneSpanTrace(10 * Millisecond, "Error", IntAttr(500))

ScoreTraces ==
    {ShortTrace, LongTrace, ErrorTrace,
     OneSpanTrace(10 * Millisecond, "Ok", IntAttr(500)),
     OneSpanTrace(100 * Millisecond, "Ok", NoAttr),
     [SpanCount |-> 2,
      ReceivedBatches |-> << << << Span(Second, Second + 100 * Millisecond, "Ok", NoAttr),
                                  Span(Second + 200 * Millisecond, Second + 500 * Millisecond,
                                       "Ok", NoAttr) >> >> >>]}

\* dec, err := sampler.Evaluate(traceID, trace)
ScoreCall ==
    /\ calls < MaxCalls
    /\ Enter(TestGoroutine, TestTrace, "fixed")
    /\ \E trace \in ScoreTraces : traces' = [traces EXCEPT ![TestTrace] = trace]
    /\ UNCHANGED <<ms, lms, mu, tlock, clock, ticks, serial, ing, hist, probe>>

\* The steps of linearModelSampler.Evaluate from trace.Lock() to the decision.
FixedSteps(p) ==
    \/ TraceLock(p)
    \/ ReadBatches(p)
    \/ TraceUnlock(p)
    \/ ExtractBegin(p)
    \/ ExtractEnd(p)
    \/ ComputeScore(p)
    \/ FixedDecide(p)

NextScore ==
    \/ ScoreCall
    \/ FixedSteps(TestGoroutine)
    \/ Return(TestGoroutine)

InitScore ==
    \E sampler \in ScoreSamplers : InitWith([adaptive |-> BaseConfig, fixed |-> sampler])

SpecScore == InitScore /\ [][NextScore]_vars

\* addScoreLocked applied to sequences of up to MaxAdmissions scores on
\* controllers of every small capacity; probe.admitted is the sequence so far.
MaxAdmissions == 5

RingConfigs == {[BaseConfig EXCEPT !.MaxSamples = m] : m \in {0, 1, 2, 3}}

AdmittedScores == {FInt(1), FInt(2), FInt(3)}

ApplyAddScore ==
    /\ probe.fn \in {"none", "addScoreLocked"}
    /\ LET admitted == IF probe.fn = "none" THEN <<>> ELSE probe.admitted
       IN /\ Len(admitted) < MaxAdmissions
          /\ \E score \in AdmittedScores :
                /\ ms' = addScoreLocked(ms, score)
                /\ probe' = [fn |-> "addScoreLocked", admitted |-> Append(admitted, score)]
    /\ UNCHANGED <<lms, mu, traces, tlock, clock, ticks, calls, pc, loc, serial, ing, hist>>

InitRing ==
    \E cfg \in RingConfigs :
        InitWith([adaptive |-> cfg, fixed |-> NewLinearModelSampler(FZero, FZero, DurationOnly)])

SpecRing == InitRing /\ [][ApplyAddScore]_vars

\* ------------------------------------------- the threshold of a recompute
\* Controllers whose base keep ratio is the configured one, over buffers of
\* every capacity up to four.
ThresholdConfigs ==
    {[BaseConfig EXCEPT !.MaxSamples = m, !.KeepRatio = k, !.FallbackThreshold = FInt(7)] :
        m \in {0, 3, 4}, k \in {Fin(1, 4), Fin(1, 2), Fin(9, 10), FOne, Fin(3, 2)}}

\* Final keep ratios handed to the threshold derivation of lines 260-268.
FinalKeepRatios ==
    {FInt(-1), FZero, Fin(1, 10), Fin(1, 4), Fin(1, 2), Fin(7, 10), Fin(9, 10), FOne, FInt(2)}

\* Lines 260-268 on the current buffer, for one final keep ratio.
ApplyDeriveThreshold ==
    /\ probe.fn \in {"none", "addScoreLocked"}
    /\ \E keepRatio \in FinalKeepRatios :
          probe' = [fn |-> "deriveThreshold", keepRatio |-> keepRatio, scores |-> ms.scores,
                    threshold |-> deriveThreshold(ms, keepRatio)]
    /\ UNCHANGED <<ms, lms, mu, traces, tlock, clock, ticks, calls, pc, loc, serial, ing, hist>>

\* ms.recomputeLocked(now) on the current buffer.
ApplyRecompute ==
    /\ probe.fn \in {"none", "addScoreLocked"}
    /\ \E after \in {recomputeLocked(ms, TimeAt(clock))} :
          /\ ms' = after
          /\ probe' = [fn |-> "recomputeLocked", keepRatio |-> after.currentKeepRatio,
                       scores |-> ms.scores, threshold |-> after.currentThreshold]
    /\ UNCHANGED <<lms, mu, traces, tlock, clock, ticks, calls, pc, loc, serial, ing, hist>>

NextThreshold == ApplyAddScore \/ ApplyDeriveThreshold \/ ApplyRecompute

InitThreshold ==
    \E cfg \in ThresholdConfigs :
        InitWith([adaptive |-> cfg, fixed |-> NewLinearModelSampler(FZero, FZero, DurationOnly)])

SpecThreshold == InitThreshold /\ [][NextThreshold]_vars

\* ------------------------------------------------ the quantile of a buffer
\* A ring buffer of MaxSampleLen slots that fills up with distinct scores or
\* with repeated ones, in ascending order or not; the threshold is derived
\* from it at every length.
MaxSampleLen == 11

QuantileConfigs ==
    {[BaseConfig EXCEPT !.MaxSamples = MaxSampleLen, !.KeepRatio = k] :
        k \in {Fin(7, 10), Fin(9, 10)}}

ApplyAdmitSample ==
    /\ probe.fn \in {"none", "addScoreLocked"}
    /\ Len(ms.scores) < MaxSampleLen
    /\ \E score \in {FInt(Len(ms.scores) + 1), FInt(MaxSampleLen - Len(ms.scores))} :
          /\ ms' = addScoreLocked(ms, score)
          /\ probe' = [fn |-> "addScoreLocked",
                       admitted |-> Append(IF probe.fn = "none" THEN <<>> ELSE probe.admitted,
                                           score)]
    /\ UNCHANGED <<lms, mu, traces, tlock, clock, ticks, calls, pc, loc, serial, ing, hist>>

NextQuantile == ApplyAdmitSample \/ ApplyDeriveThreshold \/ ApplyRecompute

InitQuantile ==
    \E cfg \in QuantileConfigs :
        InitWith([adaptive |-> cfg, fixed |-> NewLinearModelSampler(FZero, FZero, DurationOnly)])

SpecQuantile == InitQuantile /\ [][NextQuantile]_vars

\* -------------------------------------------------- configuration validator
\* Config.Validate over the policy tree.  A policy is a BasePolicy; a
\* PolicyGroupCfg is a BasePolicy with its SubPolicies.  An absent ModelCfg or
\* Adaptive block has present = FALSE.
Model == "model"
PolicyGroup == "policy_group"

NoAdaptive ==
    [present |-> FALSE, Enabled |-> FALSE, TargetTracesPerSec |-> FZero, KeepRatio |-> FZero]
ModelAdaptiveCfg(enabled, target, keepRatio) ==
    [present |-> TRUE, Enabled |-> enabled, TargetTracesPerSec |-> target, KeepRatio |-> keepRatio]

NoWeights == [name \in {} |-> FZero]
NoModelCfg ==
    [present |-> FALSE, Threshold |-> FZero, Intercept |-> FZero, Weights |-> NoWeights,
     Adaptive |-> NoAdaptive]
ModelCfg(threshold, intercept, weights, adaptive) ==
    [present |-> TRUE, Threshold |-> threshold, Intercept |-> intercept, Weights |-> weights,
     Adaptive |-> adaptive]

BasePolicy(name, type, priority, modelCfg) ==
    [Name |-> name, Type |-> type, Priority |-> priority, ModelCfg |-> modelCfg]
PolicyGroupCfg(basePolicy, subPolicies) ==
    [BasePolicy |-> basePolicy, SubPolicies |-> subPolicies]
Config(policyCfgs) == [PolicyCfgs |-> policyCfgs]

\* The validation error strings.
ErrModelRequired == "model config is required"
ErrWeightsEmpty == "model.weights must not be empty"
ErrUnsupportedFeature == "unsupported feature"
ErrThreshold == "model.threshold must be a finite number"
ErrIntercept == "model.intercept must be a finite number"
ErrAdaptiveTargets == "model.adaptive requires target_traces_per_sec"
ErrPriority == "priority must be greater than 0"

NoError == [path |-> <<>>, msg |-> "nil"]

\* Mutant: only target_traces_per_sec satisfies the adaptive requirement.
adaptiveTargetsMissingTargetOnly(adaptive) ==
    adaptive.present /\ adaptive.Enabled /\ ~FGt(adaptive.TargetTracesPerSec, FZero)

\* Adaptive.Enabled with neither targetTracesPerSec > 0 nor keepRatio > 0.
adaptiveTargetsMissing(adaptive) ==
    /\ adaptive.present /\ adaptive.Enabled
    /\ ~(FGt(adaptive.TargetTracesPerSec, FZero) \/ FGt(adaptive.KeepRatio, FZero))

\* The messages the checks of a model config raise.
modelErrors(modelCfg) ==
    IF ~modelCfg.present THEN {ErrModelRequired}
    ELSE (IF DOMAIN modelCfg.Weights = {} THEN {ErrWeightsEmpty} ELSE {})
         \cup (IF DOMAIN modelCfg.Weights \subseteq FeatureNames THEN {} ELSE {ErrUnsupportedFeature})
         \cup (IF modelCfg.Threshold.k = "fin" THEN {} ELSE {ErrThreshold})
         \cup (IF modelCfg.Intercept.k = "fin" THEN {} ELSE {ErrIntercept})
         \cup (IF adaptiveTargetsMissing(modelCfg.Adaptive) THEN {ErrAdaptiveTargets} ELSE {})

\* The messages the checks of one policy raise, whatever its level.
policyErrors(policy) ==
    (IF policy.Priority > 0 THEN {} ELSE {ErrPriority})
    \cup (IF policy.Type = Model THEN modelErrors(policy.ModelCfg) ELSE {})

\* Mutant: a sub-policy error carries the sub-policy name alone.
subPolicyPathSubOnly(parentName, subName) == <<subName>>

\* <parentName>/<subName>
subPolicyPath(parentName, subName) == <<parentName, subName>>

\* Every error the validation of cfg can report.
validationErrors(cfg) ==
    UNION {{[path |-> <<g.BasePolicy.Name>>, msg |-> m] : m \in policyErrors(g.BasePolicy)}
           \cup UNION {{[path |-> subPolicyPath(g.BasePolicy.Name, g.SubPolicies[i].Name), msg |-> m] :
                           m \in policyErrors(g.SubPolicies[i])} : i \in DOMAIN g.SubPolicies}
           : g \in {cfg.PolicyCfgs[i] : i \in DOMAIN cfg.PolicyCfgs}}

\* cfg.Validate(): nil for a valid configuration, else one of the errors it
\* has (which one comes first is not fixed).
Validate(cfg) == IF validationErrors(cfg) = {} THEN {NoError} ELSE validationErrors(cfg)

ValidateWeights == {NoWeights, DurationOnly, [unknown |-> FOne]}

ValidateAdaptives ==
    {NoAdaptive}
    \cup {ModelAdaptiveCfg(enabled, target, keepRatio) :
            enabled \in BOOLEAN,
            target \in {FZero, FInt(10), FInt(-1)},
            keepRatio \in {FZero, Fin(1, 4), Fin(-1, 4)}}

ValidateModelCfgs ==
    {NoModelCfg}
    \cup {ModelCfg(threshold, intercept, weights, adaptive) :
            threshold \in {FZero, NaN},
            intercept \in {FZero, PosInf},
            weights \in ValidateWeights,
            adaptive \in ValidateAdaptives}

\* One model policy at the top level, or one nested under a policy group.
ValidateConfigs ==
    {Config(<<PolicyGroupCfg(BasePolicy("model-policy", Model, priority, modelCfg), <<>>)>>) :
        priority \in {0, 1}, modelCfg \in ValidateModelCfgs}
    \cup {Config(<<PolicyGroupCfg(BasePolicy("group", PolicyGroup, groupPriority, NoModelCfg),
                                  <<BasePolicy("sub", Model, priority, modelCfg)>>)>>) :
            groupPriority \in {0, 1}, priority \in {0, 1}, modelCfg \in ValidateModelCfgs}

\* err := cfg.Validate(), once, at startup.
ApplyValidate ==
    /\ probe = NoProbe
    /\ \E cfg \in ValidateConfigs :
          \E err \in Validate(cfg) :
              probe' = [fn |-> "Validate", cfg |-> cfg, err |-> err]
    /\ UNCHANGED <<ms, lms, mu, traces, tlock, clock, ticks, calls, pc, loc, serial, ing, hist>>

InitValidate == InitFeatures

SpecValidate == InitValidate /\ [][ApplyValidate]_vars

\* ---------------------------------------------------------------- properties
Returned(p) == pc[p] = "done"
AdaptiveCall(p) == loc[p].ev = "adaptive"
FixedCall(p) == loc[p].ev = "fixed"
TraceHasError(p) == loc[p].features.has_error = FOne
InCriticalSection(p) ==
    pc[p] \in {"rotate", "loadCount", "storeCount", "countViolation", "addScore",
               "gate", "readThreshold", "unlockMu"}
\* x >= y on two values neither of which is NaN.
NotBelow(x, y) == ~Less(x, y)
\* score >= threshold for a finite score and any threshold but NaN.
AtLeast(score, threshold) ==
    IF threshold.k = "inf" THEN threshold.s < 0 ELSE NotBelow(score, threshold)

\* C1 as stated: with alwaysKeepErrors set, every trace with has_error = 1 is
\* Sampled by the adaptive evaluator, whatever its score.
C1_ErrorTraceAlwaysSampled ==
    \A p \in Threads :
        (Returned(p) /\ AdaptiveCall(p) /\ ms.alwaysKeepErrors /\ TraceHasError(p))
            => loc[p].decision = Sampled

\* C1 amended: with alwaysKeepErrors set, every trace with has_error = 1 and a
\* valid (finite) score is Sampled by the adaptive evaluator, whatever the
\* score and the threshold; an error trace with an invalid score is NotSampled.
C1_ErrorOverrideValidScore ==
    \A p \in Threads :
        (Returned(p) /\ AdaptiveCall(p) /\ ms.alwaysKeepErrors /\ TraceHasError(p))
            => loc[p].decision = (IF loc[p].score.k = "fin" THEN Sampled ELSE NotSampled)

\* An error trace scoring below the threshold was Sampled.
C1_Witness ==
    \E p \in Threads :
        /\ Returned(p) /\ AdaptiveCall(p) /\ ms.alwaysKeepErrors /\ TraceHasError(p)
        /\ loc[p].score.k = "fin" /\ loc[p].threshold.k = "fin"
        /\ ~NotBelow(loc[p].score, loc[p].threshold)
        /\ loc[p].decision = Sampled

\* C2: either evaluator returns NotSampled with a nil error for a score that is
\* NaN, +Inf or -Inf, whatever the threshold and the controller state.
C2_InvalidScoreNotSampled ==
    \A p \in Threads :
        (Returned(p) /\ loc[p].score.k # "fin")
            => (loc[p].decision = NotSampled /\ loc[p].err = "nil")

\* Both variants have returned on an invalid score, the fixed one on a +Inf
\* score under a -Inf threshold.
C2_Witness ==
    \E p, q \in Threads :
        /\ Returned(p) /\ FixedCall(p) /\ loc[p].score = PosInf /\ lms.threshold = NegInf
        /\ loc[p].decision = NotSampled
        /\ Returned(q) /\ AdaptiveCall(q) /\ loc[q].score.k # "fin"
        /\ loc[q].decision = NotSampled

\* C3: the fixed-threshold evaluator returns Sampled for a valid score exactly
\* when score >= threshold (equality included), and NotSampled otherwise.
C3_FixedThresholdRule ==
    \A p \in Threads :
        (Returned(p) /\ FixedCall(p) /\ loc[p].score.k = "fin")
            => loc[p].decision =
                   (IF AtLeast(loc[p].score, lms.threshold) THEN Sampled ELSE NotSampled)

\* A score equal to the threshold was Sampled.
C3_Witness ==
    \E p \in Threads :
        /\ Returned(p) /\ FixedCall(p) /\ loc[p].score.k = "fin"
        /\ loc[p].score = lms.threshold
        /\ loc[p].decision = Sampled

\* C4: the adaptive evaluator, for a valid score without the error override,
\* returns Sampled exactly when score >= the controller threshold as it stood
\* when this call released the mutex; later recomputes do not matter.
C4_AdaptiveThresholdRule ==
    \A p \in Threads :
        (Returned(p) /\ AdaptiveCall(p) /\ loc[p].score.k = "fin"
           /\ ~(ms.alwaysKeepErrors /\ TraceHasError(p)))
            => loc[p].decision =
                   (IF AtLeast(loc[p].score, loc[p].thrAtUnlock) THEN Sampled ELSE NotSampled)

\* A call was Sampled against its own threshold although a later recompute of
\* another call has raised the controller threshold above its score.
C4_Witness ==
    \E p \in Threads :
        /\ Returned(p) /\ AdaptiveCall(p) /\ loc[p].score.k = "fin"
        /\ ~(ms.alwaysKeepErrors /\ TraceHasError(p))
        /\ loc[p].decision = Sampled
        /\ ms.currentThreshold # loc[p].thrAtUnlock
        /\ ~AtLeast(loc[p].score, ms.currentThreshold)

\* C5: whenever no call is inside the critical section, the controller state is
\* the one the critical sections yield when run one after the other in the
\* order the mutex was acquired; no count and no score admission is lost.
C5_CriticalSectionsSerialize ==
    (\A p \in Threads : ~InCriticalSection(p)) => ms = serial

\* Two overlapping calls have both been counted: the one that read the clock
\* later entered the critical section first.
C5_Witness ==
    \E p, q \in Threads :
        /\ Returned(p) /\ Returned(q) /\ AdaptiveCall(p) /\ AdaptiveCall(q)
        /\ loc[p].score.k = "fin" /\ loc[q].score.k = "fin"
        /\ loc[p].cnt = 0 /\ loc[q].cnt = 1
        /\ loc[p].now.ns > loc[q].now.ns
        /\ ms.windowTraceCount = 2 /\ Len(ms.scores) = 2

\* C6: no thread holds a TraceData lock and the controller mutex together, and
\* from the feature extraction on a thread holds no TraceData lock.
C6_LocksNeverNested ==
    \A p \in Threads :
        /\ ~(mu = p /\ \E tr \in TraceIds : tlock[tr] = p)
        /\ (pc[p] \notin {"idle", "lockTrace", "readBatches", "unlockTrace"})
               => \A tr \in TraceIds : tlock[tr] # p

\* A thread is inside the critical section while another thread holds the
\* lock of the very TraceData it evaluates.
C6_Witness ==
    \E p, q \in Threads :
        /\ p # q /\ mu = p /\ InCriticalSection(p)
        /\ tlock[loc[p].trace] = q

\* C7 as stated: Evaluate walks the span collection only under the TraceData
\* lock, so in no state does the feature extractor iterate over the spans of a
\* TraceData while the ingestion path, holding the lock of that TraceData,
\* appends spans to it.
C7_SpansReadUnderLock ==
    \A p \in Threads :
        ~(/\ pc[p] = "iterate"
          /\ ing.pc = "append"
          /\ ing.trace = loc[p].batches
          /\ tlock[ing.trace] = Ingester)

\* C8: under fair scheduling every call that has started reaches its return with
\* a decision, and a call that has returned holds neither the controller mutex
\* nor a TraceData lock.
C8_EveryCallReturns ==
    /\ \A p \in Threads : (pc[p] # "idle") ~> (pc[p] = "done" /\ loc[p].decision \in {Sampled, NotSampled})
    /\ [](\A p \in Threads :
             (pc[p] \in {"idle", "done"}) => (mu # p /\ \A tr \in TraceIds : tlock[tr] # p))

\* Every lock is contended: a thread waits for the controller mutex held by the
\* other one, which evaluates a TraceData the ingestion path has locked.
C8_Witness ==
    \E p, q \in Threads :
        /\ p # q /\ mu = p /\ pc[q] = "lockMu"
        /\ ing.pc = "append" /\ ing.trace = loc[p].trace

\* C9 as stated: with slaDurationMs > 0, a trace with duration_ms >= slaDurationMs
\* whose score is below the threshold is not NotSampled.
C9_SlaViolationNeverDropped ==
    \A p \in Threads :
        (Returned(p) /\ AdaptiveCall(p) /\ loc[p].score.k = "fin"
           /\ Sign(ms.slaDurationMs) > 0
           /\ NotBelow(loc[p].features.duration_ms, ms.slaDurationMs)
           /\ ~AtLeast(loc[p].score, loc[p].thrAtUnlock))
            => loc[p].decision # NotSampled

\* C9 amended: with slaDurationMs > 0, a valid-score trace with
\* duration_ms >= slaDurationMs is counted as a violation of the window, and
\* its decision follows the ordinary rule: Sampled exactly when the error
\* override applies or score >= threshold.
C9_SlaViolationCountedOnly ==
    \A p \in Threads :
        (Returned(p) /\ AdaptiveCall(p) /\ loc[p].score.k = "fin"
           /\ Sign(ms.slaDurationMs) > 0
           /\ NotBelow(loc[p].features.duration_ms, ms.slaDurationMs))
            => /\ loc[p].counted
               /\ loc[p].decision =
                      (IF (ms.alwaysKeepErrors /\ TraceHasError(p))
                            \/ AtLeast(loc[p].score, loc[p].thrAtUnlock)
                       THEN Sampled ELSE NotSampled)

\* An SLA-violating trace without error was counted as a violation and dropped
\* because it scored below the threshold.
C9_Witness ==
    \E p \in Threads :
        /\ Returned(p) /\ AdaptiveCall(p) /\ loc[p].score.k = "fin"
        /\ Sign(ms.slaDurationMs) > 0
        /\ NotBelow(loc[p].features.duration_ms, ms.slaDurationMs)
        /\ ~TraceHasError(p)
        /\ loc[p].counted /\ ms.windowViolationCount > 0
        /\ ~AtLeast(loc[p].score, loc[p].thrAtUnlock)
        /\ loc[p].decision = NotSampled

\* C10: in the convergence scenario (target 10 traces per second, a recompute
\* on every trace, a non-error trace every 10 ms inside one window, scores
\* cycling through 1..100), when the measured pass of 100 traces that follows
\* the warm-up pass of 100 has returned, between 5 and 25 of its decisions were
\* Sampled.
C10_SecondPassSampledCount ==
    (calls = 2 * PassLen /\ pc[TestGoroutine] = "idle") => (hist.sampled \in 5..25)

\* Both passes have run inside one window, which counts all 200 traces, and the
\* measured pass sampled 19 traces.
C10_Witness ==
    /\ calls = 2 * PassLen /\ pc[TestGoroutine] = "idle"
    /\ ms.windowTraceCount = 2 * PassLen
    /\ FLt(ms.currentKeepRatio, Fin(1, 5))
    /\ hist.sampled = 19

\* Goroutine p has run recomputeLocked in this call and still holds the mutex.
AfterRecompute(p) ==
    /\ mu = p
    /\ pc[p] \in {"readThreshold", "unlockMu"}
    /\ loc[p].recomputed

\* C11 as stated: after every recompute the stored keep ratio lies in [0,1], is
\* at least minKeepRatio when minKeepRatio > 0 and at most maxKeepRatio when
\* maxKeepRatio > 0.
C11_KeepRatioWithinBounds ==
    \A p \in Threads :
        AfterRecompute(p)
            => /\ FGeq(ms.currentKeepRatio, FZero) /\ FLeq(ms.currentKeepRatio, FOne)
               /\ FGt(ms.minKeepRatio, FZero) => FGeq(ms.currentKeepRatio, ms.minKeepRatio)
               /\ FGt(ms.maxKeepRatio, FZero) => FLeq(ms.currentKeepRatio, ms.maxKeepRatio)

\* C11 amended: after every recompute the stored keep ratio is at least 0 and
\* at most maxKeepRatio when maxKeepRatio > 0; it is at least minKeepRatio when
\* minKeepRatio > 0 and the maximum is not in force or not below the minimum;
\* it is at most 1 when minKeepRatio <= 1 or 0 < maxKeepRatio <= 1; and with
\* 0 < maxKeepRatio < minKeepRatio it equals maxKeepRatio.
C11_KeepRatioClamped ==
    \A p \in Threads :
        AfterRecompute(p)
            => LET kr == ms.currentKeepRatio
                   lo == ms.minKeepRatio
                   hi == ms.maxKeepRatio
               IN /\ FGeq(kr, FZero)
                  /\ FGt(hi, FZero) => FLeq(kr, hi)
                  /\ (FGt(lo, FZero) /\ (FLeq(hi, FZero) \/ FLeq(lo, hi))) => FGeq(kr, lo)
                  /\ (FLeq(lo, FOne) \/ (FGt(hi, FZero) /\ FLeq(hi, FOne))) => FLeq(kr, FOne)
                  /\ (FGt(hi, FZero) /\ FGt(lo, hi)) => FEq(kr, hi)

\* A recompute under minKeepRatio 1/2 and maxKeepRatio 1/4 stored 1/4, below the
\* configured minimum.
C11_Witness ==
    \E p \in Threads :
        /\ AfterRecompute(p)
        /\ ms.minKeepRatio = Fin(1, 2) /\ ms.maxKeepRatio = Fin(1, 4)
        /\ ms.currentKeepRatio = Fin(1, 4)

\* x is the float64 quotient t / r of a finite t by a finite r # 0.
IsQuotient(x, t, r) == x.k = "fin" /\ x = FDiv(t, r)

\* C12: the base keep ratio is targetTracesPerSec / incomingRate when
\* targetTracesPerSec > 0 (1.0 when incomingRate <= 0), whatever keepRatio is;
\* otherwise it is keepRatio when keepRatio > 0, and 1.0 when neither is
\* configured.
C12_BaseKeepRatio ==
    (probe.fn = "targetKeepRatioLocked")
        => LET t == ms.targetTracesPerSec
               k == ms.keepRatio
               r == probe.incomingRate
               x == probe.result
           IN IF t.k = "fin" /\ Sign(t) > 0
              THEN IF r.k = "nan" THEN x = NaN
                   ELSE IF r.k = "inf" THEN x = (IF r.s > 0 THEN FZero ELSE FOne)
                   ELSE IF Sign(r) <= 0 THEN x = FOne
                   ELSE IsQuotient(x, t, r)
              ELSE IF k.k = "fin" /\ Sign(k) > 0 THEN x = k
              ELSE x = FOne

\* Both a trace budget (16 per second) and a keepRatio (1/4) are configured,
\* and at 8 traces per second the base keep ratio is 16/8.
C12_Witness ==
    /\ probe.fn = "targetKeepRatioLocked"
    /\ ms.targetTracesPerSec = FInt(16) /\ ms.keepRatio = Fin(1, 4)
    /\ probe.incomingRate = FInt(8)
    /\ probe.result = FInt(2)

\* The incident test on the window counters, the rate a float64 quotient:
\* violations / traces >= violationRateThreshold, or any violation at all when
\* no threshold is configured.
IncidentInWindow ==
    LET thr == ms.violationRateThreshold
    IN IF Sign(thr) <= 0
       THEN ms.windowViolationCount > 0
       ELSE /\ ms.windowTraceCount > 0
            /\ FGeq(Ratio(ms.windowViolationCount, ms.windowTraceCount), thr)

LargerOf(x, y) == IF NotBelow(x, y) THEN x ELSE y

\* C13: at every recompute the keep ratio before clamping is
\* max(baseKeepRatio, incidentKeepRatio) when an incident is declared and
\* baseKeepRatio otherwise; it is never below baseKeepRatio, and with
\* incidentKeepRatio <= 0 it is baseKeepRatio.
C13_IncidentBoostOnlyRaises ==
    \A p \in Threads :
        AfterRecompute(p)
            => LET b == loc[p].baseKeepRatio
                   k == loc[p].keepRatio
                   i == ms.incidentKeepRatio
               IN /\ IncidentInWindow => k = LargerOf(b, i)
                  /\ ~IncidentInWindow => k = b
                  /\ Sign(i) <= 0 => k = b
                  /\ NotBelow(k, b)

\* An incident (one violation among two traces, threshold 1/2) raises the keep
\* ratio from the base 1/4 to the incident ratio 1/2.
C13_Witness ==
    \E p \in Threads :
        /\ AfterRecompute(p)
        /\ ms.violationRateThreshold = Fin(1, 2)
        /\ ms.windowTraceCount = 2 /\ ms.windowViolationCount = 1
        /\ ms.incidentKeepRatio = Fin(1, 2)
        /\ loc[p].baseKeepRatio = Fin(1, 4)
        /\ loc[p].keepRatio = Fin(1, 2)

\* Every span of the collection last handed to extractModelFeatures.
ProbedSpans ==
    {probe.batches[i][j][k] :
        <<i, j, k>> \in {t \in (1..MaxSpans) \X (1..MaxSpans) \X (1..MaxSpans) :
                            /\ t[1] <= Len(probe.batches)
                            /\ t[2] <= Len(probe.batches[t[1]])
                            /\ t[3] <= Len(probe.batches[t[1]][t[2]])}}

SetMin(S) == CHOOSE x \in S : \A y \in S : x <= y
SetMax(S) == CHOOSE x \in S : \A y \in S : y <= x

\* C14: duration_ms is (latest end - earliest start) / 1e6 over the spans with
\* both timestamps nonzero, and 0 when no span qualifies or the latest end is
\* not after the earliest start.
C14_DurationIsExtent ==
    (probe.fn = "extractModelFeatures")
        => LET timed == {s \in ProbedSpans : s.st # 0 /\ s.et # 0}
               d == probe.features["duration_ms"]
           IN IF timed = {} THEN d = FZero
              ELSE LET earliest == SetMin({s.st : s \in timed})
                       latest == SetMax({s.et : s \in timed})
                   IN IF latest <= earliest THEN d = FZero
                      ELSE d.k = "fin" /\ d = Milliseconds(latest - earliest)

\* Two spans, 1..2 ms and 4..6 ms: the extent is 5 ms, the sum of the
\* durations would be 3 ms.
C14_Witness ==
    /\ probe.fn = "extractModelFeatures"
    /\ \E a, b \in ProbedSpans :
          /\ a.st = Millisecond /\ a.et = 2 * Millisecond
          /\ b.st = 4 * Millisecond /\ b.et = 6 * Millisecond
    /\ probe.features["duration_ms"] = FInt(5)

\* C15: has_error is 1 exactly when some span of the collection has error
\* status or an integer http.status_code >= 500, wherever the span sits; and 0
\* otherwise.
C15_HasErrorIffAnySpanErrs ==
    (probe.fn = "extractModelFeatures")
        => LET erring == {s \in ProbedSpans :
                             \/ s.status = "Error"
                             \/ s.attr.type = "int" /\ s.attr.val >= 500}
           IN probe.features["has_error"] = (IF erring # {} THEN FOne ELSE FZero)

\* An OK span with http.status_code 500 in a second resource, after an
\* error-free span: has_error is 1.
C15_Witness ==
    /\ probe.fn = "extractModelFeatures"
    /\ Len(probe.batches) = 2
    /\ probe.batches[1][1][1] = Span(Millisecond, 2 * Millisecond, "Ok", IntAttr(200))
    /\ probe.batches[2][1][1] = Span(Millisecond, 2 * Millisecond, "Ok", IntAttr(500))
    /\ probe.features["has_error"] = FOne

\* The score has been computed by the call of p.
Scored(p) == pc[p] \in {"compare", "done"}

\* weight x feature value of a feature with a configured weight, nothing
\* otherwise.
WeightedFeature(weights, features, name) ==
    IF name \in DOMAIN weights THEN FMul(weights[name], features[name]) ELSE FZero

\* The weight keys that name no extracted feature: each is multiplied by the
\* feature value 0, which is 0 for a finite weight and NaN otherwise.
UnknownKeys(weights) == DOMAIN weights \ FeatureNames
UnknownKeysTerm(weights) ==
    IF \E name \in UnknownKeys(weights) : weights[name].k # "fin" THEN NaN ELSE FZero

\* The orders the three extracted features can be added in.
FeatureOrders ==
    {<<"duration_ms", "has_error", "span_count">>, <<"duration_ms", "span_count", "has_error">>,
     <<"has_error", "duration_ms", "span_count">>, <<"has_error", "span_count", "duration_ms">>,
     <<"span_count", "duration_ms", "has_error">>, <<"span_count", "has_error", "duration_ms">>}

\* The intercept plus the weighted extracted features, added in the given
\* order, every product and every sum rounded to float64.
SumInOrder(sampler, features, order) ==
    FAdd(FAdd(FAdd(sampler.intercept,
                   WeightedFeature(sampler.weights, features, order[1])),
              WeightedFeature(sampler.weights, features, order[2])),
         WeightedFeature(sampler.weights, features, order[3]))

\* The float64 sums the orders give: they can differ in the last bit.
SumsOfExtractedFeatures(sampler, features) ==
    {SumInOrder(sampler, features, order) : order \in FeatureOrders}

ExpectedScores(sampler, features) ==
    {FAdd(sum, UnknownKeysTerm(sampler.weights)) :
        sum \in SumsOfExtractedFeatures(sampler, features)}

\* C16 (as stated): the score is intercept plus the sum over the configured
\* weights of weight x feature value (in float64, in whichever order); a
\* feature without a weight adds nothing and a weight key that names no
\* extracted feature adds 0.
C16_UnknownKeyAddsZero ==
    \A p \in Threads :
        (Scored(p) /\ FixedCall(p))
            => loc[p].score \in SumsOfExtractedFeatures(lms, loc[p].features)

\* C16 (amended): the score is intercept plus the sum over the configured
\* weights of weight x feature value, accumulated in float64 in one of the
\* orders the weight map can be ranged over; a feature without a weight adds
\* nothing and a weight key that names no extracted feature is multiplied by 0:
\* it adds 0 when its weight is finite and makes the score NaN when its weight
\* is infinite or NaN.  With weights duration_ms 0.01,
\* has_error 2.0, span_count 0.1, intercept 0 and threshold 2.0, the 50 ms trace
\* scores 0.6 and is NotSampled, the 400 ms trace scores 4.1 and the 10 ms
\* error trace 2.2, and both are Sampled.
C16_ScoreIsWeightedSum ==
    \A p \in Threads :
        /\ (Scored(p) /\ FixedCall(p))
              => loc[p].score \in ExpectedScores(lms, loc[p].features)
        /\ (Returned(p) /\ FixedCall(p) /\ lms = ExampleSampler)
              => /\ traces[loc[p].trace] = ShortTrace
                    => loc[p].score = Fin(6, 10) /\ loc[p].decision = NotSampled
                 /\ traces[loc[p].trace] = LongTrace
                    => loc[p].score = Fin(41, 10) /\ loc[p].decision = Sampled
                 /\ traces[loc[p].trace] = ErrorTrace
                    => loc[p].score = Fin(22, 10) /\ loc[p].decision = Sampled

\* A weight map whose only key names no feature and has an infinite weight:
\* Inf x 0 makes the score NaN and the trace NotSampled, whatever the
\* threshold.
C16_Witness ==
    \E p \in Threads :
        /\ Returned(p) /\ FixedCall(p)
        /\ DOMAIN lms.weights = {"unknown_feature"}
        /\ IsInf(lms.weights["unknown_feature"])
        /\ IsNaN(loc[p].score)
        /\ SumsOfExtractedFeatures(lms, loc[p].features) = {lms.intercept}
        /\ loc[p].decision = NotSampled

\* C17: every Evaluate call of either variant returns a nil error, and a
\* decision that is Sampled or NotSampled, on every path.
C17_NilErrorBinaryDecision ==
    \A p \in Threads :
        Returned(p) => /\ loc[p].err = "nil"
                       /\ loc[p].decision \in {Sampled, NotSampled}

\* A call of each variant has returned: the adaptive one through the error
\* override, the fixed one through the threshold comparison.
C17_Witness ==
    \E p, q \in Threads :
        /\ Returned(p) /\ Returned(q)
        /\ AdaptiveCall(p) /\ ms.alwaysKeepErrors /\ loc[p].hasError
        /\ loc[p].decision = Sampled /\ loc[p].err = "nil"
        /\ FixedCall(q) /\ ~InvalidScore(loc[q].score)
        /\ loc[q].decision = NotSampled /\ loc[q].err = "nil"

\* The configuration last validated: its only group, and its model policy
\* (the top-level policy or the nested one).
ValidatedGroup == probe.cfg.PolicyCfgs[1]
ValidatedNested == ValidatedGroup.BasePolicy.Type = PolicyGroup
ValidatedModelPolicy ==
    IF ValidatedNested THEN ValidatedGroup.SubPolicies[1] ELSE ValidatedGroup.BasePolicy

\* The model policy passes every check but the adaptive one.
OtherwiseValidModel(policy) ==
    /\ policy.Priority > 0
    /\ policy.ModelCfg.present
    /\ DOMAIN policy.ModelCfg.Weights # {}
    /\ DOMAIN policy.ModelCfg.Weights \subseteq FeatureNames
    /\ policy.ModelCfg.Threshold.k = "fin"
    /\ policy.ModelCfg.Intercept.k = "fin"

EitherTargetPositive(adaptive) ==
    \/ adaptive.TargetTracesPerSec.k = "fin" /\ Sign(adaptive.TargetTracesPerSec) > 0
    \/ adaptive.KeepRatio.k = "fin" /\ Sign(adaptive.KeepRatio) > 0

\* C18: with adaptive mode enabled, validation succeeds only if
\* targetTracesPerSec > 0 or keepRatio > 0; when neither holds and nothing else
\* is wrong the error is 'model.adaptive requires target_traces_per_sec'; when
\* one holds and nothing else is wrong, validation succeeds.
C18_AdaptiveNeedsTarget ==
    (/\ probe.fn = "Validate"
     /\ ValidatedModelPolicy.ModelCfg.present
     /\ ValidatedModelPolicy.ModelCfg.Adaptive.present
     /\ ValidatedModelPolicy.ModelCfg.Adaptive.Enabled)
        => LET adaptive == ValidatedModelPolicy.ModelCfg.Adaptive
               otherwiseValid == /\ OtherwiseValidModel(ValidatedModelPolicy)
                                 /\ ValidatedGroup.BasePolicy.Priority > 0
           IN /\ probe.err = NoError => EitherTargetPositive(adaptive)
              /\ (~EitherTargetPositive(adaptive) /\ otherwiseValid)
                    => probe.err.msg = ErrAdaptiveTargets
              /\ (EitherTargetPositive(adaptive) /\ otherwiseValid)
                    => probe.err = NoError

\* TestValidate_ModelPolicy_AdaptiveMissingTargets: adaptive enabled, neither
\* target set, nothing else wrong; the adaptive error is reported.
C18_Witness ==
    /\ probe.fn = "Validate"
    /\ probe.cfg = Config(<<PolicyGroupCfg(
                       BasePolicy("model-policy", Model, 1,
                                  ModelCfg(FZero, FZero, DurationOnly,
                                           ModelAdaptiveCfg(TRUE, FZero, FZero))),
                       <<>>)>>)
    /\ probe.err = [path |-> <<"model-policy">>, msg |-> ErrAdaptiveTargets]

\* C19: the model checks apply to a model sub-policy nested under a policy
\* group, and an error raised for the sub-policy carries the path
\* <parentName>/<subName> with the underlying message.
C19_SubPolicyErrorsCarryPath ==
    (probe.fn = "Validate" /\ ValidatedNested)
        => LET sub == ValidatedModelPolicy
               groupValid == ValidatedGroup.BasePolicy.Priority > 0
               modelValid == /\ OtherwiseValidModel(sub)
                             /\ (sub.ModelCfg.Adaptive.present /\ sub.ModelCfg.Adaptive.Enabled)
                                   => EitherTargetPositive(sub.ModelCfg.Adaptive)
           IN /\ ~modelValid => probe.err # NoError
              /\ (groupValid /\ probe.err # NoError)
                    => probe.err.path = <<ValidatedGroup.BasePolicy.Name, sub.Name>>
              /\ (/\ groupValid /\ sub.Priority > 0 /\ sub.ModelCfg.present
                  /\ DOMAIN sub.ModelCfg.Weights = {}
                  /\ sub.ModelCfg.Threshold.k = "fin" /\ sub.ModelCfg.Intercept.k = "fin"
                  /\ ~sub.ModelCfg.Adaptive.present)
                    => probe.err = [path |-> <<"group", "sub">>, msg |-> ErrWeightsEmpty]

\* TestValidate_SubPolicy_ModelValidation: empty weights in sub-policy 'sub' of
\* group 'group'.
C19_Witness ==
    /\ probe.fn = "Validate"
    /\ probe.cfg = Config(<<PolicyGroupCfg(
                       BasePolicy("group", PolicyGroup, 1, NoModelCfg),
                       <<BasePolicy("sub", Model, 1,
                                    ModelCfg(FZero, FZero, NoWeights, NoAdaptive))>>)>>)
    /\ probe.err = [path |-> <<"group", "sub">>, msg |-> ErrWeightsEmpty]

\* The call of p holds the controller mutex and is past the window rotation.
AfterRotate(p) ==
    /\ mu = p
    /\ pc[p] \in {"loadCount", "storeCount", "countViolation", "addScore", "gate",
                  "readThreshold", "unlockMu"}

\* The window counters of a call that has just rotated the window: zero until
\* the call counts its own trace, then one trace and at most its own violation.
CountersRestarted(p) ==
    IF pc[p] \in {"loadCount", "storeCount"}
    THEN ms.windowTraceCount = 0 /\ ms.windowViolationCount = 0
    ELSE IF pc[p] = "countViolation"
    THEN ms.windowTraceCount = 1 /\ ms.windowViolationCount = 0
    ELSE /\ ms.windowTraceCount = 1
         /\ ms.windowViolationCount = (IF loc[p].counted THEN 1 ELSE 0)

\* C20 as stated: the first valid-score trace sets windowStart to its
\* timestamp; on a later one, whatever windowDuration is, if
\* now - windowStart >= windowDuration the window restarts at now with its
\* counters zeroed before the trace is counted, and otherwise windowStart is
\* unchanged.
C20_RotatesWhenWindowElapsed ==
    \A p \in Threads :
        AfterRotate(p)
            => LET seen == loc[p].windowStartSeen
                   now == loc[p].now
               IN IF IsZero(seen) THEN ms.windowStart = now
                  ELSE IF DurationReached(Sub(now, seen), ms.windowDuration)
                       THEN ms.windowStart = now /\ CountersRestarted(p)
                       ELSE ms.windowStart = seen

\* C20, amended: the window restarts only when windowDuration > 0 and
\* now - windowStart >= windowDuration; with windowDuration <= 0 it never
\* restarts after the first trace.
C20_RotatesWhenPositiveWindowElapsed ==
    \A p \in Threads :
        AfterRotate(p)
            => LET seen == loc[p].windowStartSeen
                   now == loc[p].now
               IN IF IsZero(seen) THEN ms.windowStart = now
                  ELSE IF DurationPositive(ms.windowDuration) /\ DurationReached(Sub(now, seen), ms.windowDuration)
                       THEN ms.windowStart = now /\ CountersRestarted(p)
                       ELSE ms.windowStart = seen

\* A second trace arrives one window duration after the first: the window
\* restarts at its timestamp and holds that trace alone.
C20_Witness ==
    \E p \in Threads :
        /\ AfterRotate(p) /\ pc[p] = "unlockMu"
        /\ ms.windowDuration = Duration(TickNs)
        /\ loc[p].windowStartSeen = TimeAt(0)
        /\ loc[p].now = TimeAt(TickNs)
        /\ ms.windowStart = TimeAt(TickNs)
        /\ ms.windowTraceCount = 1

\* The call of p takes the recompute gate in this step.
GateStep(p) == pc[p] = "gate" /\ pc'[p] = "readThreshold"

\* C21: a valid-score call recomputes exactly when no recompute has occurred
\* yet or now - lastRecompute >= recomputeInterval; a recompute sets
\* lastRecompute to the call's timestamp, and a call that does not recompute
\* leaves the controller as it was.
C21_RecomputeGate ==
    [][\A p \in Threads :
          GateStep(p)
              => LET now == loc[p].now
                     due == \/ ms.lastRecompute.zero
                            \/ now.ns - ms.lastRecompute.ns >= ms.recomputeInterval
                 IN /\ loc'[p].recomputed <=> due
                    /\ due => ms'.lastRecompute = now
                    /\ ~due => ms' = ms]_vars

\* With recomputeInterval 250 ms, the second call, 250 ms after the first
\* recompute, has recomputed again.
C21_Witness ==
    \E p \in Threads :
        /\ AfterRecompute(p)
        /\ calls = 2
        /\ ms.recomputeInterval = TickNs
        /\ loc[p].now = TimeAt(TickNs)
        /\ ms.lastRecompute = TimeAt(TickNs)

\* How often v occurs in the sequence s.
Occurrences(s, v) == Cardinality({i \in DOMAIN s : s[i] = v})

\* The last n elements of s.
LastOf(s, n) == SubSeq(s, Len(s) - n + 1, Len(s))

\* C22: after k admissions with maxSamples = M > 0 the buffer holds exactly
\* the min(k, M) most recently admitted scores (as a multiset), and once it is
\* full the slot the next admission overwrites holds the oldest of them.
C22_RingHoldsMostRecent ==
    (probe.fn = "addScoreLocked" /\ ms.maxSamples > 0)
        => LET k == Len(probe.admitted)
               M == ms.maxSamples
               n == IF k < M THEN k ELSE M
           IN /\ Len(ms.scores) = n
              /\ \A v \in AdmittedScores :
                    Occurrences(ms.scores, v) = Occurrences(LastOf(probe.admitted, n), v)
              /\ k >= M => ms.scores[ms.scoresNextIdx + 1] = probe.admitted[k - M + 1]

\* Capacity 2, scores 1, 2, 3, 1 admitted in that order: the buffer holds 3
\* and 1, and the next admission overwrites the 3.
C22_Witness ==
    /\ probe.fn = "addScoreLocked"
    /\ ms.maxSamples = 2
    /\ probe.admitted = <<FInt(1), FInt(2), FInt(3), FInt(1)>>
    /\ ms.scores = <<FInt(3), FInt(1)>>
    /\ ms.scoresNextIdx = 0
    /\ ms.scoresFilled

\* incomingRate = windowTraceCount / (elapsed in seconds): the float64
\* quotient of the count by the seconds of the elapsed time.
IsRateOver(rate, count, elapsed) ==
    /\ rate.k = "fin"
    /\ rate = Rate(count, elapsed)

\* C23 as stated: the elapsed time of a recompute is max(now - windowStart,
\* 1 ms), so an elapsed time between 0 and 1 ms is raised to 1 ms, and
\* incomingRate is windowTraceCount over that time in seconds.
C23_ElapsedAtLeastMillisecond ==
    \A p \in Threads :
        AfterRecompute(p)
            => LET since == loc[p].now.ns - ms.windowStart.ns
               IN /\ loc[p].elapsed = (IF since >= Millisecond THEN since ELSE Millisecond)
                  /\ IsRateOver(loc[p].incomingRate, ms.windowTraceCount, loc[p].elapsed)

\* C23, amended: the elapsed time is now - windowStart, replaced by 1 ms only
\* when it is zero or negative; a positive elapsed time below 1 ms is used as
\* it is.  incomingRate is windowTraceCount over that time in seconds.
C23_ElapsedReplacedWhenNotPositive ==
    \A p \in Threads :
        AfterRecompute(p)
            => LET since == loc[p].now.ns - ms.windowStart.ns
               IN /\ loc[p].elapsed = (IF since <= 0 THEN Millisecond ELSE since)
                  /\ IsRateOver(loc[p].incomingRate, ms.windowTraceCount, loc[p].elapsed)

\* The second trace arrives half a millisecond after the window start: the
\* rate is 2 traces over 0.5 ms, 4000 per second.
C23_Witness ==
    \E p \in Threads :
        /\ AfterRecompute(p)
        /\ ms.windowStart = TimeAt(0)
        /\ loc[p].now = TimeAt(Millisecond \div 2)
        /\ ms.windowTraceCount = 2
        /\ loc[p].elapsed = Millisecond \div 2
        /\ loc[p].incomingRate = FInt(4000)


\* ------------------------------------------------------------------- C24
\* v is the element at 0-based index i of the ascending order of s: fewer
\* than i + 1 elements are below v and at least i + 1 are at most v.
IsElementOfAscendingOrder(s, i, v) ==
    /\ \E j \in 1..Len(s) : s[j] = v
    /\ Cardinality({j \in 1..Len(s) : FLt(s[j], v)}) <= i
    /\ Cardinality({j \in 1..Len(s) : FLeq(s[j], v)}) > i

\* ceil((1 - a/b) * (n - 1)) clamped to [0, n - 1], for a fraction 0 < a/b < 1
\* given as f = <<a, b>>, in integers: the least i in 0..n-1 with
\* i >= (1 - a/b) * (n - 1).
ExactIndex(f, n) ==
    CHOOSE i \in 0..(n - 1) :
        /\ i * f[2] >= (f[2] - f[1]) * (n - 1)
        /\ \A h \in 0..(i - 1) : h * f[2] < (f[2] - f[1]) * (n - 1)
\* The decimal fractions a/b the keep ratios are written as, and the fraction
\* a float64 keep ratio was written as: Fin(a, b) is the float64 of a/b.
Fractions == {f \in (1..9) \X {2, 4, 10} : f[1] < f[2]}
FractionFloats == [a \in 1..9, b \in 1..10 |-> Fin(a, b)]
FractionOf(keepRatio) == CHOOSE f \in Fractions : FractionFloats[f[1], f[2]] = keepRatio
\* ceil((1 - keepRatio) * (n - 1)) clamped to [0, n - 1], for 0 < keepRatio < 1,
\* the ceiling taken exactly on the fraction the keep ratio is written as.
ThresholdIndex(keepRatio, n) == Strict2(ExactIndex, FractionOf(keepRatio), n)

ThresholdDerived == probe.fn \in {"deriveThreshold", "recomputeLocked"}

RetainedCount(scores, threshold) ==
    Cardinality({j \in 1..Len(scores) : FGeq(scores[j], threshold)})

QuantileDerived ==
    /\ ThresholdDerived
    /\ FGt(probe.keepRatio, FZero) /\ FLt(probe.keepRatio, FOne)
    /\ Len(probe.scores) > 0

\* C25 (as stated): for a non-empty buffer of n scores and a keep ratio strictly
\* between 0 and 1, at least keepRatio * n buffered scores are at or above the
\* derived threshold.
C25_RetainsAtLeastNominal ==
    QuantileDerived =>
        RetainedCount(probe.scores, probe.threshold) * FractionOf(probe.keepRatio)[2]
            >= FractionOf(probe.keepRatio)[1] * Len(probe.scores)

\* C25 (amended): at least one buffered score is at or above the derived
\* threshold, and at least n - 1 - ceil((1 - keepRatio) * (n - 1)) of them are:
\* the index is the ceiling of a float64 product, which rounding can put one
\* above the exact ceiling.
C25_RetainsAtLeastRank ==
    QuantileDerived =>
        LET n == Len(probe.scores)
            retained == RetainedCount(probe.scores, probe.threshold)
        IN /\ retained >= 1
           /\ retained >= n - 1 - ThresholdIndex(probe.keepRatio, n)

\* Eleven distinct scores and a keep ratio of 7/10: 1.0 - 0.7 is a float64
\* above 3/10, the position is above 3 and the index is 4, so seven scores are
\* retained, fewer than the nominal 7.7 and fewer than the 8 of the exact
\* ceiling.
C25_Witness ==
    /\ QuantileDerived
    /\ probe.fn = "deriveThreshold"
    /\ probe.keepRatio = Fin(7, 10)
    /\ Len(probe.scores) = 11
    /\ Cardinality({probe.scores[j] : j \in 1..11}) = 11
    /\ ThresholdIndex(probe.keepRatio, 11) = 3
    /\ RetainedCount(probe.scores, probe.threshold) = 7


\* ------------------------------------------------------------------- C26
\* violationRate >= violationRateThreshold, with violationRate =
\* windowViolationCount / windowTraceCount (0 when the window has no traces).
ViolationRateReached ==
    LET thr == ms.violationRateThreshold
    IN IF ms.windowTraceCount > 0
       THEN FGeq(Ratio(ms.windowViolationCount, ms.windowTraceCount), thr)
       ELSE Sign(thr) <= 0

\* A recompute that looked for an incident (incidentKeepRatio > 0) has just run.
AfterIncidentTest(p) == AfterRecompute(p) /\ Sign(ms.incidentKeepRatio) > 0

\* C26 (as stated): at a recompute with incidentKeepRatio > 0 an incident is
\* declared exactly when (violationRateThreshold <= 0 and the window counted a
\* violation) or violationRate >= violationRateThreshold.
C26_IncidentIffViolationsOrRate ==
    \A p \in Threads :
        AfterIncidentTest(p)
            => (loc[p].incident
                   <=> \/ Sign(ms.violationRateThreshold) <= 0 /\ ms.windowViolationCount > 0
                       \/ ViolationRateReached)

\* C26 (amended): at a recompute with incidentKeepRatio > 0 an incident is
\* declared exactly when (violationRateThreshold <= 0 and the window counted a
\* violation) or (violationRateThreshold > 0 and violationRate >=
\* violationRateThreshold); the keep ratio is raised to incidentKeepRatio
\* exactly when an incident is declared and incidentKeepRatio exceeds the base.
C26_IncidentByThresholdSign ==
    \A p \in Threads :
        AfterIncidentTest(p)
            => /\ loc[p].incident
                   <=> \/ Sign(ms.violationRateThreshold) <= 0 /\ ms.windowViolationCount > 0
                       \/ Sign(ms.violationRateThreshold) > 0 /\ ViolationRateReached
               /\ loc[p].keepRatio =
                     IF loc[p].incident /\ ~NotBelow(loc[p].baseKeepRatio, ms.incidentKeepRatio)
                     THEN ms.incidentKeepRatio
                     ELSE loc[p].baseKeepRatio

\* A recompute with a non-positive threshold in a window of two traces without
\* a violation: no incident, and the keep ratio stays at the base.
C26_Witness ==
    \E p \in Threads :
        /\ AfterIncidentTest(p)
        /\ Sign(ms.violationRateThreshold) <= 0
        /\ ms.windowTraceCount = 2 /\ ms.windowViolationCount = 0
        /\ ~loc[p].incident
        /\ ms.incidentKeepRatio = Fin(1, 2)
        /\ loc[p].keepRatio = Fin(1, 4)


\* ------------------------------------------------------------------- C27
\* The steps of the statistics update of thread p.
CountStep(p) == pc[p] = "storeCount" /\ pc'[p] = "countViolation"
ViolationStep(p) == pc[p] = "countViolation" /\ pc'[p] = "addScore"
\* has_error, or slaDurationMs > 0 and duration_ms >= slaDurationMs.
ViolatesSla(p) ==
    \/ TraceHasError(p)
    \/ /\ Sign(ms.slaDurationMs) > 0
       /\ NotBelow(loc[p].features.duration_ms, ms.slaDurationMs)

\* C27: a valid-score call adds exactly 1 to windowTraceCount, and adds 1 to
\* windowViolationCount when the trace has has_error or (slaDurationMs > 0 and
\* duration_ms >= slaDurationMs) and 0 otherwise; the recompute of the same call
\* runs after the update, on counters that include the current trace.
C27_StatisticsUpdate ==
    [][\A p \in Threads :
          /\ CountStep(p)
                => /\ ms'.windowTraceCount = ms.windowTraceCount + 1
                   /\ ms'.windowViolationCount = ms.windowViolationCount
          /\ ViolationStep(p)
                => /\ ms'.windowTraceCount = ms.windowTraceCount
                   /\ ms'.windowViolationCount =
                         ms.windowViolationCount + (IF ViolatesSla(p) THEN 1 ELSE 0)
          /\ GateStep(p)
                => /\ ms.windowTraceCount >= 1
                   /\ ms.windowViolationCount >= (IF ViolatesSla(p) THEN 1 ELSE 0)
                   /\ ms'.windowTraceCount = ms.windowTraceCount
                   /\ ms'.windowViolationCount = ms.windowViolationCount
                   /\ loc'[p].recomputed
                         => IsRateOver(loc'[p].incomingRate, ms.windowTraceCount,
                                       loc'[p].elapsed)]_vars

\* The second call of a window, on an error-free trace whose duration equals the
\* SLA of 2 ms, has counted a violation and recomputed: both traces of the
\* window are violations.
C27_Witness ==
    \E p \in Threads :
        /\ AfterRecompute(p)
        /\ ~TraceHasError(p)
        /\ ms.slaDurationMs = FInt(2)
        /\ loc[p].features.duration_ms = FInt(2)
        /\ ms.windowTraceCount = 2
        /\ ms.windowViolationCount = 2


\* ------------------------------------------------------------------- C28
\* The rotation step of thread p.
RotateStep(p) == pc[p] = "rotate" /\ pc'[p] = "loadCount"

\* C28: the rotation step changes nothing of the controller but windowStart
\* and the two window counters: the ring buffer, its cursor and fill flag, the
\* cached threshold, the cached keep ratio and lastRecompute stay as they were.
C28_RotationKeepsBuffer ==
    [][\A p \in Threads :
          RotateStep(p)
              => /\ ms'.scores = ms.scores
                 /\ ms'.scoresNextIdx = ms.scoresNextIdx
                 /\ ms'.scoresFilled = ms.scoresFilled
                 /\ ms'.currentThreshold = ms.currentThreshold
                 /\ ms'.currentKeepRatio = ms.currentKeepRatio
                 /\ ms'.lastRecompute = ms.lastRecompute
                 /\ ms = [ms' EXCEPT !.windowStart = ms.windowStart,
                                     !.windowTraceCount = ms.windowTraceCount,
                                     !.windowViolationCount = ms.windowViolationCount]]_vars

\* The first call of a new window has recomputed: the window counts one trace,
\* and the threshold is the score admitted during the previous window.
C28_Witness ==
    \E p \in Threads :
        /\ AfterRecompute(p)
        /\ ~loc[p].windowStartSeen.zero
        /\ loc[p].windowStartSeen # ms.windowStart
        /\ ms.windowTraceCount = 1
        /\ Len(ms.scores) = 2
        /\ ms.scores[2] = loc[p].score
        /\ ms.currentThreshold = ms.scores[1]
        /\ ms.currentThreshold # loc[p].score


\* ------------------------------------------------------------------- C29
\* Thread p is in an adaptive call whose score was found NaN or infinite.
InvalidAdaptiveCall(p) == AdaptiveCall(p) /\ Returned(p) /\ loc[p].score.k # "fin"
\* Thread p moves on from the invalid-score check, or returns.
ScoreCheckStep(p) == pc[p] = "score" /\ pc'[p] # "score"
ReturnStep(p) == pc[p] = "done" /\ pc'[p] = "idle"

\* C29: an adaptive call whose score is NaN or infinite goes from the score
\* check straight to its return, never takes the controller mutex, and none of
\* its steps changes the controller: the window is neither started nor rotated,
\* nothing is counted or admitted, and lastRecompute stays as it was.
C29_InvalidScoreLeavesController ==
    /\ [][\A p \in Threads :
             /\ (AdaptiveCall(p) /\ ScoreCheckStep(p) /\ loc'[p].score.k # "fin")
                   => (pc'[p] = "done" /\ ms' = ms /\ mu' = mu)
             /\ (InvalidAdaptiveCall(p) /\ ReturnStep(p))
                   => (ms' = ms /\ mu' = mu)]_vars
    /\ [](\A p \in Threads :
             InvalidAdaptiveCall(p)
                 => /\ mu # p
                    /\ ms.windowStart.zero /\ ms.lastRecompute.zero
                    /\ ms.windowTraceCount = 0 /\ ms.windowViolationCount = 0
                    /\ ms.scores = <<>>
                    /\ ms.currentThreshold = ms.fallbackThreshold)

\* Two adaptive calls with a NaN score have returned, one after a clock tick,
\* and the controller is as constructed.
C29_Witness ==
    /\ \A p \in Threads : InvalidAdaptiveCall(p) /\ IsNaN(loc[p].score)
    /\ ticks > 0
    /\ ms = NewAdaptiveLinearModelSampler(InvalidConfig)


\* ------------------------------------------------------------------- C30
\* The score of the call of thread p is at least every buffered score.
TopOfBuffer(p) == \A j \in 1..Len(ms.scores) : NotBelow(loc[p].score, ms.scores[j])

\* Thread p has returned from a valid-score call on a controller with a ring
\* buffer.
ReturnedValid(p) ==
    Returned(p) /\ AdaptiveCall(p) /\ loc[p].score.k = "fin" /\ ms.maxSamples > 0

\* C30 as stated: with maxSamples > 0 the first call on a fresh controller is
\* Sampled, whatever the score, the error flag and the configured targets and
\* clamps; and every call that recomputes and whose score is at least every
\* score of the ring buffer (its own included) is Sampled.
C30_TopScoreSampled ==
    \A p \in Threads :
        ReturnedValid(p)
            => /\ calls = 1 => (loc[p].recomputed /\ loc[p].decision = Sampled)
               /\ (loc[p].recomputed /\ TopOfBuffer(p)) => loc[p].decision = Sampled

\* The recompute of the call of thread p took the keep-none branch: the
\* threshold it read under the same lock is +Inf.
KeepNone(p) == loc[p].threshold = PosInf

\* C30 amended: with maxSamples > 0 the first call on a fresh controller
\* always recomputes; a call that recomputes and whose score is at least every
\* score of the ring buffer (its own included) is Sampled unless the recompute
\* took the keep-none branch; the keep-none branch is taken only when the
\* quotient targetTracesPerSec / incomingRate underflowed to 0 with no incident
\* boost and no positive minKeepRatio, and the call is then Sampled exactly
\* when alwaysKeepErrors is set and the trace has an error.
C30_TopScoreSampledUnlessKeepNone ==
    \A p \in Threads :
        ReturnedValid(p)
            => /\ calls = 1 => loc[p].recomputed
               /\ (loc[p].recomputed /\ TopOfBuffer(p) /\ ~KeepNone(p))
                     => loc[p].decision = Sampled
               /\ (loc[p].recomputed /\ KeepNone(p))
                     => /\ FGt(ms.targetTracesPerSec, FZero)
                        /\ loc[p].baseKeepRatio = FZero
                        /\ loc[p].keepRatio = FZero
                        /\ ~FGt(ms.minKeepRatio, FZero)
                        /\ loc[p].decision = Sampled
                              <=> (loc[p].alwaysKeepErrors /\ loc[p].hasError)

\* The first call on a controller whose target rate is the smallest positive
\* float64: the base keep ratio underflowed to 0, the threshold is +Inf, and
\* the trace, the only one in the buffer and without error, was NotSampled.
C30_Witness ==
    \E p \in Threads :
        /\ ReturnedValid(p)
        /\ calls = 1
        /\ loc[p].recomputed
        /\ ~loc[p].hasError
        /\ ms.targetTracesPerSec = SmallestNonzeroFloat64
        /\ loc[p].baseKeepRatio = FZero
        /\ ms.scores = <<loc[p].score>>
        /\ TopOfBuffer(p)
        /\ KeepNone(p)
        /\ loc[p].decision = NotSampled


UnderflowsToZero(t, r) ==
    IsSubnormal(t) /\ Sign(t) > 0 /\ NotBelow([r EXCEPT !.p = @ + 1075], t)

AtMuLock(p) == pc[p] = "lockMu" /\ MuFree(p)

\* The valid scores given to the copies, the call's own score among them.
OtherScores == {FInt(0), FInt(2), FInt(3), FInt(5), FInt(6)}
CopyScores(p) == OtherScores \cup {loc[p].score}

\* Copies of the controller as p finds it, each given p's timestamp, error flag
\* and duration and one score: what Evaluate does on each from ms.mu.Lock() on.
Copies(p) ==
    [score \in CopyScores(p) |->
        evaluateLocked(ms, score, loc[p].hasError, loc[p].durationMs, loc[p].now)]

MonotoneInScore(out) ==
    \A s, t \in DOMAIN out :
        (NotBelow(t, s) /\ out[s].decision = Sampled) => out[t].decision = Sampled

\* C32: on copies of one controller state given the same timestamp, error flag
\* and duration, if the copy given score s returns Sampled then so does every
\* copy given a score s' >= s.
C32_DecisionMonotoneInScore ==
    \A p \in Threads : AtMuLock(p) => Strict1(MonotoneInScore, Copies(p))

\* A call whose timestamp is older than the controller's last recompute finds
\* the gate open (a negative recompute interval); two copies recompute, each
\* with its own score in its ring buffer: the lower score is NotSampled at one
\* threshold, the higher one Sampled at another.
C32_Witness ==
    \E p \in Threads :
        /\ AtMuLock(p)
        /\ ~loc[p].hasError
        /\ ~IsZero(ms.lastRecompute)
        /\ Sub(loc[p].now, ms.lastRecompute) < 0
        /\ \E s, t \in CopyScores(p) :
              /\ NotBelow(t, s) /\ s # t
              /\ LET out == Copies(p)
                 IN /\ out[s].ms.lastRecompute = loc[p].now
                    /\ out[t].ms.lastRecompute = loc[p].now
                    /\ out[s].decision = NotSampled
                    /\ out[t].decision = Sampled
                    /\ out[s].threshold # out[t].threshold
                    /\ out[t].threshold = t


\* ------------------------------------------------------------------- C33
\* C33: with recomputeInterval >= 0, whatever the order in which concurrent
\* calls enter the critical section, the timestamp of a recomputing call is at
\* least windowStart: the elapsed time is not negative, and it is replaced by
\* 1 ms only when the timestamp equals windowStart.
C33_RecomputeNotBeforeWindowStart ==
    \A p \in Threads :
        (AfterRecompute(p) /\ ms.recomputeInterval >= 0)
            => /\ ~ms.windowStart.zero
               /\ loc[p].now.ns >= ms.windowStart.ns
               /\ loc[p].elapsed =
                     (IF loc[p].now.ns = ms.windowStart.ns
                      THEN Millisecond
                      ELSE loc[p].now.ns - ms.windowStart.ns)

\* A call that entered the critical section with a timestamp earlier than the
\* window start it found is still about to return when a later call recomputes,
\* after the window start.
C33_Witness ==
    \E p, q \in Threads :
        /\ AfterRecompute(p)
        /\ pc[q] \in {"decide", "done"}
        /\ ~loc[q].windowStartSeen.zero
        /\ loc[q].now.ns < loc[q].windowStartSeen.ns
        /\ loc[p].now.ns > ms.windowStart.ns
        /\ loc[p].elapsed = loc[p].now.ns - ms.windowStart.ns


\* ------------------------------------------------------------------- C34
\* Thread p carries an earlier timestamp than a call that has already left the
\* critical section.
LateCall(p) ==
    \E q \in Threads \ {p} :
        /\ AdaptiveCall(q) /\ loc[q].score.k = "fin"
        /\ pc[q] \in {"decide", "done"}
        /\ loc[q].now.ns > loc[p].now.ns

\* Time u is not before time t (a zero t is before every time).
NotBefore(t, u) == t.zero \/ (~u.zero /\ u.ns >= t.ns)

\* C34: with recomputeInterval >= 0, no step moves windowStart or lastRecompute
\* backwards; a call that enters the critical section with an earlier timestamp
\* than a call before it does not rotate the window and does not recompute, and
\* it is counted in the current window.
C34_LateCallOnlyCounted ==
    [][ms.recomputeInterval >= 0
          => /\ NotBefore(ms.windowStart, ms'.windowStart)
             /\ NotBefore(ms.lastRecompute, ms'.lastRecompute)
             /\ \A p \in Threads :
                   LateCall(p)
                       => /\ RotateStep(p) => ms' = ms
                          /\ CountStep(p)
                                => ms'.windowTraceCount = ms.windowTraceCount + 1
                          /\ GateStep(p) => (~loc'[p].recomputed /\ ms' = ms)]_vars

\* A call stamped before the window start has passed the gate without a
\* recompute after a call with a later timestamp, and is the second trace of
\* that call's window.
C34_Witness ==
    \E p \in Threads :
        /\ mu = p /\ pc[p] \in {"readThreshold", "unlockMu"}
        /\ LateCall(p)
        /\ ~loc[p].recomputed
        /\ loc[p].now.ns < ms.windowStart.ns
        /\ loc[p].now.ns < ms.lastRecompute.ns
        /\ ms.windowTraceCount = 2


\* ------------------------------------------------------------------- C35
\* Thread p is in a valid-score adaptive call that has counted its trace.
Counted(p) ==
    /\ AdaptiveCall(p) /\ loc[p].score.k = "fin"
    /\ \/ mu = p /\ pc[p] \in {"countViolation", "addScore", "gate", "readThreshold", "unlockMu"}
       \/ mu = NoOwner /\ pc[p] \in {"decide", "done"}

\* C35: in every state 0 <= windowViolationCount <= windowTraceCount; once a
\* valid-score call has counted its trace, and while no other call is inside
\* the critical section, windowTraceCount >= 1; so at every recompute the
\* violation rate lies in [0,1] and the incoming rate is strictly positive.
C35_CountersConsistent ==
    /\ 0 <= ms.windowViolationCount
    /\ ms.windowViolationCount <= ms.windowTraceCount
    /\ \A p \in Threads :
          /\ Counted(p) => ms.windowTraceCount >= 1
          /\ AfterRecompute(p)
                => /\ ms.windowTraceCount >= 1
                   /\ loc[p].incomingRate.k = "fin" /\ Sign(loc[p].incomingRate) > 0

\* Two goroutines: the second call of a window recomputes with one violation
\* among two traces.
C35_Witness ==
    \E p, q \in Threads :
        /\ p # q
        /\ AfterRecompute(p)
        /\ Counted(p)
        /\ pc[q] \in {"decide", "done"} /\ AdaptiveCall(q) /\ loc[q].score.k = "fin"
        /\ ms.windowTraceCount = 2
        /\ ms.windowViolationCount = 1
        /\ Sign(loc[p].incomingRate) > 0


\* ------------------------------------------------------------------- C36
\* C36: with maxSamples > 0 the buffer never holds more than maxSamples scores,
\* the write cursor is in [0, maxSamples) and is 0 until the buffer is full,
\* and the fill flag is set only on a buffer of exactly maxSamples scores; with
\* maxSamples <= 0 no score is stored.
C36_RingStructure ==
    /\ ms.maxSamples > 0
          => /\ Len(ms.scores) <= ms.maxSamples
             /\ 0 <= ms.scoresNextIdx /\ ms.scoresNextIdx < ms.maxSamples
             /\ Len(ms.scores) < ms.maxSamples => ms.scoresNextIdx = 0
             /\ ms.scoresFilled => Len(ms.scores) = ms.maxSamples
    /\ ms.maxSamples <= 0
          => (ms.scores = <<>> /\ ms.scoresNextIdx = 0 /\ ~ms.scoresFilled)

\* Capacity 2 after 5 admissions: the cursor has wrapped once, the fill flag is
\* set, and the cursor stands at slot 1.
C36_Witness ==
    /\ probe.fn = "addScoreLocked"
    /\ Len(probe.admitted) = 5
    /\ ms.maxSamples = 2
    /\ Len(ms.scores) = 2
    /\ ms.scoresFilled
    /\ ms.scoresNextIdx = 1


\* ------------------------------------------------------------------- C37
\* The call of thread p does not pass the recompute gate: a recompute has
\* occurred and less than recomputeInterval has elapsed since.
GateClosed(p) ==
    /\ ~ms.lastRecompute.zero
    /\ loc[p].now.ns - ms.lastRecompute.ns < ms.recomputeInterval

\* The cached threshold, the cached keep ratio and lastRecompute.
Cached(m) == <<m.currentThreshold, m.currentKeepRatio, m.lastRecompute>>

\* C37: no step of a valid-score call that does not pass the recompute gate
\* changes the cached threshold, the cached keep ratio or lastRecompute, although
\* the call counts its trace and admits its score; these three change only in
\* the gate step of a call that passes the gate.
C37_ThresholdChangesOnlyInRecompute ==
    [][/\ \A p \in Threads :
             (GateStep(p) /\ GateClosed(p))
                 => /\ Cached(ms') = Cached(ms)
                    /\ ~loc'[p].recomputed
                    /\ ms.windowTraceCount >= 1
                    /\ ms.maxSamples > 0
                          => \E j \in 1..Len(ms.scores) : ms.scores[j] = loc[p].score
       /\ Cached(ms') # Cached(ms)
             => \E p \in Threads : GateStep(p) /\ ~GateClosed(p)]_vars

\* The second call within a recompute interval of 250 ms has not recomputed:
\* its score is in the buffer and above the threshold, which is still the
\* first call's score.
C37_Witness ==
    \E p \in Threads :
        /\ mu = p /\ pc[p] \in {"readThreshold", "unlockMu"}
        /\ ~loc[p].recomputed
        /\ ms.recomputeInterval = TickNs
        /\ ms.windowTraceCount = 2
        /\ ms.scores = <<ms.currentThreshold, loc[p].score>>
        /\ ~NotBelow(ms.currentThreshold, loc[p].score)
        /\ ms.lastRecompute.ns = loc[p].now.ns


\* ------------------------------------------------------------------- C38
\* Thread p has read the threshold of its valid-score adaptive call.
ThresholdRead(p) ==
    /\ AdaptiveCall(p) /\ loc[p].score.k = "fin"
    /\ pc[p] \in {"unlockMu", "decide", "done"}

ReadStep(p) == pc[p] = "readThreshold" /\ pc'[p] = "unlockMu"

\* C38 as stated: with maxSamples > 0 every recompute sets the threshold to
\* -Inf or to a score of the ring buffer, every call reads its threshold after
\* a recompute has occurred, and the threshold changes nowhere else, so no
\* decision is compared with the configured fallback threshold; with
\* maxSamples <= 0 a recompute sets the fallback threshold exactly when the
\* final keep ratio is strictly between 0 and 1.
C38_FallbackOnlyWithoutBuffer ==
    /\ [][/\ \A p \in Threads :
                /\ (GateStep(p) /\ loc'[p].recomputed)
                      => LET keepRatio == ms'.currentKeepRatio
                             between == Sign(keepRatio) > 0 /\ ~NotBelow(keepRatio, FOne)
                         IN IF ms.maxSamples > 0
                            THEN \/ ms'.currentThreshold = NegInf
                                 \/ \E j \in 1..Len(ms.scores) :
                                       ms.scores[j] = ms'.currentThreshold
                            ELSE /\ between => ms'.currentThreshold = ms.fallbackThreshold
                                 /\ ~between => ms'.currentThreshold = NegInf
                /\ ReadStep(p)
                      => (loc'[p].threshold = ms.currentThreshold /\ ~ms.lastRecompute.zero)
          /\ ms'.currentThreshold # ms.currentThreshold
                => \E p \in Threads : GateStep(p) /\ loc'[p].recomputed]_vars
    /\ [](\A p \in Threads :
             (ThresholdRead(p) /\ ms.maxSamples > 0)
                 => /\ loc[p].threshold # ms.fallbackThreshold
                    /\ loc[p].threshold # PosInf)

\* C38 amended: with maxSamples > 0 every recompute sets the threshold to
\* -Inf, to a score of the ring buffer, or to +Inf when it stores the keep
\* ratio 0; every call reads its threshold after a recompute has occurred, and
\* the threshold changes nowhere else, so no decision is compared with the
\* configured fallback threshold; with maxSamples <= 0 a recompute sets the
\* fallback threshold exactly when the final keep ratio is strictly between 0
\* and 1.
C38_FallbackNeverCompared ==
    /\ [][/\ \A p \in Threads :
                /\ (GateStep(p) /\ loc'[p].recomputed)
                      => LET keepRatio == ms'.currentKeepRatio
                             between == FGt(keepRatio, FZero) /\ FLt(keepRatio, FOne)
                         IN IF ms.maxSamples > 0
                            THEN \/ ms'.currentThreshold = NegInf
                                 \/ \E j \in 1..Len(ms.scores) :
                                       ms.scores[j] = ms'.currentThreshold
                                 \/ /\ ms'.currentThreshold = PosInf
                                    /\ keepRatio = FZero
                            ELSE (ms'.currentThreshold = ms.fallbackThreshold) <=> between
                /\ ReadStep(p)
                      => (loc'[p].threshold = ms.currentThreshold /\ ~ms.lastRecompute.zero)
          /\ ms'.currentThreshold # ms.currentThreshold
                => \E p \in Threads : GateStep(p) /\ loc'[p].recomputed]_vars
    /\ [](\A p \in Threads :
             (ThresholdRead(p) /\ ms.maxSamples > 0)
                 => /\ loc[p].threshold # ms.fallbackThreshold
                    /\ \/ loc[p].threshold = NegInf
                       \/ loc[p].threshold = PosInf
                       \/ loc[p].threshold.k = "fin")

\* With a buffer, a trace whose score is at least the fallback threshold was
\* compared with +Inf, the threshold of a recompute that stored the keep ratio
\* 0, and was NotSampled.
C38_Witness ==
    \E p \in Threads :
        /\ Returned(p) /\ ThresholdRead(p)
        /\ ms.maxSamples > 0
        /\ NotBelow(loc[p].score, ms.fallbackThreshold)
        /\ loc[p].threshold = PosInf
        /\ ms.currentKeepRatio = FZero
        /\ \A j \in 1..Len(ms.scores) : ms.scores[j] # ms.fallbackThreshold
        /\ loc[p].decision = NotSampled

====
